---- MODULE Spec2Model ----
(***************************************************************************)
(* Change detection and print layout of the LotR set generator (lotr.py).  *)
(*                                                                         *)
(* Spec      : the per-(set, language) snapshot pipeline                   *)
(*             generate_xml -> update_xml -> calculate_hashes ->           *)
(*             get_skip_info, over the two snapshot files                  *)
(*             setEons/<set>.<lang>.xml and setEons/<set>.<lang>.xml.old.  *)
(* SpecCanon : the canonicalisation used for the per-card fingerprint,     *)
(*             applied to card trees that differ in whitespace text.       *)
(* SpecClear : _clear_modified_images over an image folder.                *)
(* SpecPdf   : the page layout of generate_pdf.                            *)
(* SpecPack  : _prepare_printing_images and _collect_pdf_images over an    *)
(*             image folder.                                               *)
(* SpecDeck  : _prepare_dtc_printing_archive over a staging folder.        *)
(* SpecStage : one call of a stage function that stages files in a         *)
(*             temporary folder or packs an image folder.                  *)
(* SpecRuns  : successive runs of the pipeline together with the image     *)
(*             folders the render stages keep between runs.                *)
(* SpecRehash: calculate_hashes applied to a snapshot and then to its own   *)
(*             output.                                                     *)
(* SpecArt   : _collect_artwork_images and ARTWORK_CACHE over artwork      *)
(*             folders that change between calls.                          *)
(* SpecEnc   : the encounter-set numbering of update_xml.                  *)
(***************************************************************************)
EXTENDS Integers, Sequences, FiniteSets, TLC

VARIABLES
    pc,        \* position of the pipeline run for the (set, language) pair
    newFile,   \* setEons/<set>.<lang>.xml
    oldFile,   \* setEons/<set>.<lang>.xml.old
    artwork,     \* the artwork file indexed for card "a", side A
    lastError, \* the function in which the last run ended with an exception
    hashes,    \* what the last calculate_hashes returned: <<new, old>> file hash
    skipInfo,  \* what the last get_skip_info returned
    tree,      \* SpecCanon: a card tree
    other,     \* SpecCanon: the same card with one whitespace text node changed
    digests,   \* SpecCanon: the fingerprints of tree and other
    folder,    \* SpecClear: the top-level filenames of an image folder
    skipIds,   \* SpecClear: the skip_ids argument
    removed,   \* SpecClear: the files os.remove was called on
    cleared,   \* SpecClear: _clear_modified_images has returned
    pdfDir,    \* SpecPdf: the png300PDF image folder of the pair
    images,    \* SpecPdf: what _collect_pdf_images returned
    pagesRaw,  \* SpecPdf: the pages_raw list generate_pdf built
    pages,     \* SpecPdf: the pages list generate_pdf built
    drawn,     \* SpecPdf: the drawImage calls, per page format
    pdfResult, \* SpecPdf: how generate_pdf ended
    packDir,     \* SpecPack: an image folder: whether it exists, its filenames in listing order
    packService, \* SpecPack: the service argument, 'mpc' or 'dtc'
    packIndex,   \* SpecPack: what _collect_pdf_images returned for the folder
    packCopies,  \* SpecPack: the shutil.copyfile calls, in order
    packStaged,  \* SpecPack: the files of the staging folder and their sources
    packResult,  \* SpecPack: how _prepare_printing_images ended
    packLog,     \* SpecPack: the filenames of the logging.error calls, per function
    deckFiles,   \* SpecDeck: the filenames of the staging folder, in listing order
    deckArchive, \* SpecDeck: the archive names of the obj.write calls, in order
    deckDone,    \* SpecDeck: _prepare_dtc_printing_archive has returned
    stagePool,   \* SpecStage: the input image folder of the stage: whether it exists, its listing
    stageConf,   \* SpecStage: conf['outputs']
    stageExits,  \* SpecStage: the exit codes of the external tool, by invocation
    stageTemp,   \* SpecStage: the temporary folder of the stage: whether it exists, its files
    stageName,   \* SpecStage: the stage function that was called
    stageSteps,  \* SpecStage: the statements of the stage that were executed, in order
    stageOut,    \* SpecStage: the output artifacts the stage made
    stageResult, \* SpecStage: how the stage ended: returned or raised
    runScratch,  \* SpecRuns: the from_scratch setting of the run in progress
    runOutputs,  \* SpecRuns: conf['outputs'] of the run in progress
    imgFolders,  \* SpecRuns: per output class and card id, the content the image was rendered from
    firstDoc,    \* SpecRehash: the document the first calculate_hashes call wrote
    artDirs,     \* SpecArt: per artwork path, the filenames of the folder in listing order
    artCache,    \* SpecArt: ARTWORK_CACHE
    artPath,     \* SpecArt: the artwork_path argument of the last call
    artReturned, \* SpecArt: what the last _collect_artwork_images call returned
    artWarned,   \* SpecArt: the files the last call logged a duplicate warning for
    artHit,      \* SpecArt: the last call returned from the cache
    encIn,       \* SpecEnc: the document update_xml reads
    encOut       \* SpecEnc: the document update_xml writes

pipeVars  == <<pc, newFile, oldFile, artwork, lastError, hashes, skipInfo>>
canonVars == <<tree, other, digests>>
clearVars == <<folder, skipIds, removed, cleared>>
pdfVars   == <<pdfDir, images, pagesRaw, pages, drawn, pdfResult>>
packVars  == <<packDir, packService, packIndex, packCopies, packStaged, packResult, packLog>>
deckVars  == <<deckFiles, deckArchive, deckDone>>
stageVars == <<stagePool, stageConf, stageExits, stageTemp, stageName, stageSteps, stageOut, stageResult>>
runsVars  == <<runScratch, runOutputs, imgFolders>>
rehashVars == <<firstDoc>>
artVars   == <<artDirs, artCache, artPath, artReturned, artWarned, artHit>>
encVars   == <<encIn, encOut>>
vars      == <<pipeVars, canonVars, clearVars, pdfVars, packVars, deckVars, stageVars, runsVars, rehashVars, artVars, encVars>>

(***************************************************************************)
(* Bounds of the model.                                                    *)
(***************************************************************************)
MaxQty   == 2   \* Quantity values a spreadsheet row takes: 1..MaxQty
MaxMtime == 2   \* modification times of the artwork file, in half seconds
MaxWsLen == 2   \* length of a whitespace-only text node

(***************************************************************************)
(* xml.etree.ElementTree elements.  attrs is the attrib dict in insertion  *)
(* order, text and tail are sequences of characters, kids the children.    *)
(* Attribute values are strings; None stands for Python's None.            *)
(***************************************************************************)
None == "<None>"

Elem(tag, attrs, text, kids, tail) ==
    [tag |-> tag, attrs |-> attrs, text |-> text, kids |-> kids, tail |-> tail]

HasAttr(attrs, k) == \E i \in 1..Len(attrs) : attrs[i][1] = k

AttrGet(attrs, k) ==
    IF HasAttr(attrs, k)
    THEN attrs[CHOOSE i \in 1..Len(attrs) : attrs[i][1] = k][2]
    ELSE None

AttrSet(attrs, k, v) ==
    IF HasAttr(attrs, k)
    THEN [i \in 1..Len(attrs) |-> IF attrs[i][1] = k THEN <<k, v>> ELSE attrs[i]]
    ELSE Append(attrs, <<k, v>>)

ElemSet(e, k, v) == [e EXCEPT !.attrs = AttrSet(e.attrs, k, v)]

(***************************************************************************)
(* ET.tostring(elem, encoding='unicode'): a sequence of tokens.  A tag     *)
(* with its attributes is one token, every character of a text or tail is  *)
(* a token of its own.  Text and attribute values are escaped as           *)
(* ElementTree escapes them.                                               *)
(***************************************************************************)
\* one character of _escape_cdata: & < >
EscapeCdataChar(c) ==
    IF c = "&" THEN "&amp;"
    ELSE IF c = "<" THEN "&lt;"
    ELSE IF c = ">" THEN "&gt;"
    ELSE c

\* _escape_cdata on a text or tail
EscapeCdata(text) == [i \in 1..Len(text) |-> EscapeCdataChar(text[i])]

\* one character of _escape_attrib: & < > " \r \n \t
EscapeAttribChar(c) ==
    IF c = "\"" THEN "&quot;"
    ELSE IF c = "\r" THEN "&#13;"
    ELSE IF c = "\n" THEN "&#10;"
    ELSE IF c = "\t" THEN "&#09;"
    ELSE EscapeCdataChar(c)

\* _escape_attrib on an attribute value, folded half by half
RECURSIVE EscapeAttrib(_)
EscapeAttrib(text) ==
    IF Len(text) = 0 THEN ""
    ELSE IF Len(text) = 1 THEN EscapeAttribChar(text)
    ELSE EscapeAttrib(SubSeq(text, 1, Len(text) \div 2))
         \o EscapeAttrib(SubSeq(text, Len(text) \div 2 + 1, Len(text)))

RECURSIVE SerAttrs(_)
SerAttrs(attrs) ==
    IF attrs = <<>> THEN ""
    ELSE " " \o Head(attrs)[1] \o "=\"" \o EscapeAttrib(Head(attrs)[2]) \o "\""
         \o SerAttrs(Tail(attrs))

RECURSIVE Serialize(_)
RECURSIVE SerKids(_)
SerKids(kids) ==
    IF kids = <<>> THEN <<>> ELSE Serialize(Head(kids)) \o SerKids(Tail(kids))

Serialize(e) ==
    (IF e.text = <<>> /\ e.kids = <<>>
     THEN << "<" \o e.tag \o SerAttrs(e.attrs) \o " />" >>
     ELSE << "<" \o e.tag \o SerAttrs(e.attrs) \o ">" >>
          \o EscapeCdata(e.text) \o SerKids(e.kids) \o << "</" \o e.tag \o ">" >>)
    \o EscapeCdata(e.tail)

\* str.isspace, which is also the class \s of a str pattern: the controls
\* U+0009..U+000D and U+001C..U+001F, the space, U+0085, U+00A0 and U+1680,
\* written here as the characters themselves.  The other members of the
\* class (U+2000..U+200A, U+2028, U+2029, U+202F, U+205F, U+3000) are not
\* accepted in a string literal and occur in no document of the model.
IsSpace(c) ==
    c \in {"\n", " ", "\t", "\r", "\f",
           "", "", "", "", "",
           "", " ", " "}

RECURSIVE LStrip(_)
LStrip(s) == IF s # <<>> /\ IsSpace(Head(s)) THEN LStrip(Tail(s)) ELSE s

RECURSIVE RStrip(_)
RStrip(s) ==
    IF s # <<>> /\ IsSpace(s[Len(s)]) THEN RStrip(SubSeq(s, 1, Len(s) - 1)) ELSE s

\* str.strip()
Strip(s) == LStrip(RStrip(s))

\* a variant for the pattern r'\n', which leaves the indentation
RECURSIVE SubNewlinesOnly(_)
SubNewlinesOnly(s) ==
    IF s = <<>> THEN <<>>
    ELSE IF Head(s) = "\n" THEN SubNewlinesOnly(Tail(s))
    ELSE <<Head(s)>> \o SubNewlinesOnly(Tail(s))

\* re.sub(r'\n\s*', '', s)
RECURSIVE SubNewlines(_)
SubNewlines(s) ==
    IF s = <<>> THEN <<>>
    ELSE IF Head(s) = "\n" THEN SubNewlines(LStrip(Tail(s)))
    ELSE <<Head(s)>> \o SubNewlines(Tail(s))

Canonical(e) == SubNewlines(Strip(Serialize(e)))

\* hashlib.md5(...).hexdigest(), taken as injective on its input
Md5(s) == ToString(s)

ElemHash(e) == Md5(Canonical(e))

(***************************************************************************)
(* Helpers of update_xml.                                                  *)
(***************************************************************************)
\* _find_properties(parent, name)
FindProperties(parent, name) ==
    SelectSeq(parent.kids, LAMBDA p : AttrGet(p.attrs, "name") = name)

FirstIndex(kids, Match(_)) ==
    CHOOSE i \in 1..Len(kids) :
        Match(kids[i]) /\ \A j \in 1..(i - 1) : ~Match(kids[j])

\* prop = _get_property(parent, name); prop.set('value', value)
SetProperty(parent, name, value) ==
    LET IsProp(p) == AttrGet(p.attrs, "name") = name IN
    IF FindProperties(parent, name) # <<>>
    THEN [parent EXCEPT !.kids[FirstIndex(parent.kids, IsProp)] =
                            ElemSet(@, "value", value)]
    ELSE [parent EXCEPT !.kids =
              Append(@, Elem("property",
                             << <<"name", name>>, <<"value", value>> >>,
                             <<>>, <<>>, <<>>))]

\* int(s) for the decimal strings the model holds
IntOf(s) == CHOOSE n \in 0..(MaxQty + 1) : ToString(n) = s

(***************************************************************************)
(* Artwork files.  A file <id>_<side>_<title>[_Artist_<words>].<ext> is    *)
(* held by its parts; mtime is os.path.getmtime in units of                *)
(* 1/TicksPerSecond seconds.                                               *)
(***************************************************************************)
TicksPerSecond == 2

RECURSIVE Join(_, _)
Join(words, sep) ==
    IF words = <<>> THEN ""
    ELSE IF Len(words) = 1 THEN words[1]
    ELSE words[1] \o sep \o Join(Tail(words), sep)

\* os.path.split(filename)[-1]
BaseName(f) ==
    f.id \o "_" \o f.side \o "_" \o f.title
    \o (IF f.artist = <<>> THEN "" ELSE "_Artist_" \o Join(f.artist, "_"))
    \o "." \o f.ext

\* the text between '_Artist_' and the extension, '_' replaced by ' '
ArtistOf(f) == Join(f.artist, " ")

\* a variant that records the modification time without int()
IntMtimeRaw(f) == f.mtime

\* int(os.path.getmtime(filename))
IntMtime(f) == f.mtime \div TicksPerSecond

\* The artwork of a set is [folder, processed]: the filenames os.walk lists
\* for artwork_path and for artwork_path/processed, in listing order.
Artworks(listing, plisting) == [folder |-> listing, processed |-> plisting]

\* images.get('<id>_<side>') on {**images, **processed_images}: within a
\* folder the last file listed wins, and a processed file overrides the
\* file of the folder.  The result is <<>> or the one file indexed.
ImagesGet(files, id, side) ==
    LET hits == SelectSeq(files.folder \o files.processed,
                          LAMBDA f : f.id = id /\ f.side = side
                                     /\ f.ext \in {"jpg", "png"})
    IN  IF hits = <<>> THEN <<>> ELSE <<hits[Len(hits)]>>

\* the Artwork, Artwork Size, Artwork Modified and Artist properties
ArtworkProps(e, f) ==
    LET e1 == SetProperty(e, "Artwork", BaseName(f))
        e2 == SetProperty(e1, "Artwork Size", ToString(f.size))
        e3 == SetProperty(e2, "Artwork Modified", ToString(IntMtime(f)))
    IN  IF FindProperties(e3, "Artist") = <<>> /\ f.artist # <<>>
        THEN SetProperty(e3, "Artist", ArtistOf(f))
        ELSE e3

\* _set_outputs(conf, root)
SetOutputs(outputs, root) ==
    LET r1 == IF {"db", "octgn", "pdf"} \cap outputs # {}
              THEN ElemSet(root, "png300NoBleed", "1") ELSE root
        r2 == IF {"pdf", "drivethrucards"} \cap outputs # {}
              THEN ElemSet(r1, "png300Bleed", "1") ELSE r1
    IN  IF "makeplayingcards" \in outputs
        THEN ElemSet(r2, "png800Bleed", "1") ELSE r2

EmptyMap == [k \in {} |-> 0]
MapGet(m, k, default) == IF k \in DOMAIN m THEN m[k] ELSE default
MapPut(m, k, v) == [x \in DOMAIN m \cup {k} |-> IF x = k THEN v ELSE m[x]]

\* the body of the first loop of update_xml for one card; acc carries
\* encounter_sets and encounter_cards
UpdateCard(card, files, acc) ==
    LET types == FindProperties(card, "Type")
        esetP == FindProperties(card, "Encounter Set")
        id    == AttrGet(card.attrs, "id")
        numbered == types # <<>> /\ AttrGet(types[1].attrs, "value") # "Quest"
                    /\ esetP # <<>>
        eset  == AttrGet(esetP[1].attrs, "value")
        qty   == IntOf(AttrGet(FindProperties(card, "Quantity")[1].attrs, "value"))
        c1    == IF numbered
                 THEN SetProperty(card, "Encounter Set Number",
                                  ToString(MapGet(acc.sets, eset, 0) + 1))
                 ELSE card
        fa    == ImagesGet(files, id, "A")
        c2    == IF fa # <<>> THEN ArtworkProps(c1, fa[1]) ELSE c1
        fb    == ImagesGet(files, id, "B")
        IsB(a) == AttrGet(a.attrs, "type") = "B"
        hasB  == \E i \in 1..Len(c2.kids) : IsB(c2.kids[i])
        c3    == IF fb # <<>> /\ hasB
                 THEN [c2 EXCEPT !.kids[FirstIndex(c2.kids, IsB)] =
                                     ArtworkProps(@, fb[1])]
                 ELSE c2
    IN  IF types = <<>>
        THEN [card |-> card, sets |-> acc.sets, cards |-> acc.cards]
        ELSE [card  |-> c3,
              sets  |-> IF numbered
                        THEN MapPut(acc.sets, eset, MapGet(acc.sets, eset, 0) + qty)
                        ELSE acc.sets,
              cards |-> IF numbered THEN MapPut(acc.cards, id, eset) ELSE acc.cards]

\* the first loop over root[0]: the updated cards and the two dictionaries
RECURSIVE UpdateCards(_, _, _)
UpdateCards(cards, files, acc) ==
    IF cards = <<>> THEN [out |-> <<>>, sets |-> acc.sets, cards |-> acc.cards]
    ELSE LET r    == UpdateCard(Head(cards), files, acc)
             rest == UpdateCards(Tail(cards), files,
                                 [sets |-> r.sets, cards |-> r.cards])
         IN  [out |-> <<r.card>> \o rest.out, sets |-> rest.sets,
              cards |-> rest.cards]

\* a variant without the second loop
SetTotalsNone(cards, sets, ecards) == cards

\* the second loop over root[0]: Encounter Set Total
SetTotals(cards, sets, ecards) ==
    [i \in 1..Len(cards) |->
        LET id == AttrGet(cards[i].attrs, "id") IN
        IF id \in DOMAIN ecards
        THEN SetProperty(cards[i], "Encounter Set Total", ToString(sets[ecards[id]]))
        ELSE cards[i]]

\* update_xml on the parsed document
UpdateXmlDoc(plugin, outputs, files, root) ==
    LET r1 == SetOutputs(outputs, ElemSet(root, "pluginVersion", plugin))
        r  == UpdateCards(r1.kids[1].kids, files,
                          [sets |-> EmptyMap, cards |-> EmptyMap])
    IN  [r1 EXCEPT !.kids[1].kids = SetTotals(r.out, r.sets, r.cards)]

(***************************************************************************)
(* calculate_hashes and get_skip_info on the parsed documents.  A file is  *)
(* [st, doc]: st is "absent", "corrupt" (ET.parse raises) or "ok".         *)
(***************************************************************************)
NoDoc   == Elem("", <<>>, <<>>, <<>>, <<>>)
Absent  == [st |-> "absent", doc |-> NoDoc]
Corrupt == [st |-> "corrupt", doc |-> NoDoc]
File(doc) == [st |-> "ok", doc |-> doc]

\* for card in root[0]: card.set('hash', md5 of the canonical card)
HashCards(root) ==
    [root EXCEPT !.kids[1].kids =
        [i \in 1..Len(@) |-> ElemSet(@[i], "hash", ElemHash(@[i]))]]

\* a variant that fingerprints the set element without its children
FileHashOfRootOnly(hashed) == ElemHash([hashed EXCEPT !.kids = <<>>])

\* a variant that fingerprints the card container only
FileHashOfCardsOnly(hashed) == ElemHash(hashed.kids[1])

\* new_file_hash: the md5 of the canonical root, taken once every card
\* carries its hash
FileHash(hashed) == ElemHash(hashed)

\* old_hashes.get(id): the hash of the last card of root_old[0] with that id
OldHashGet(oldCards, id) ==
    LET hits == {i \in 1..Len(oldCards) : AttrGet(oldCards[i].attrs, "id") = id}
    IN  IF hits = {} THEN None
        ELSE AttrGet(oldCards[CHOOSE i \in hits : \A j \in hits : j <= i].attrs,
                     "hash")

\* a variant without the os.path.exists(old_path) test
HashesRaiseNoExistsTest(new, old) == new.st # "ok" \/ old.st # "ok"

\* a variant that reads the stored fingerprints with attrib.get
HashesRaiseLenient(new, old) ==
    new.st # "ok" \/ new.doc.kids = <<>> \/ old.st = "corrupt"

\* the statements of calculate_hashes that raise: ET.parse of either file,
\* root[0], root_old.attrib['hash'], card.attrib['id'], card.attrib['hash']
\* of a prior card, and card.attrib['id'] of a new card once a prior exists
HashesRaise(new, old) ==
    \/ new.st # "ok"
    \/ new.doc.kids = <<>>
    \/ /\ old.st # "absent"
       /\ \/ old.st = "corrupt"
          \/ ~HasAttr(old.doc.attrs, "hash")
          \/ old.doc.kids = <<>>
          \/ \E i \in 1..Len(old.doc.kids[1].kids) :
                 \/ ~HasAttr(old.doc.kids[1].kids[i].attrs, "id")
                 \/ ~HasAttr(old.doc.kids[1].kids[i].attrs, "hash")
          \/ \E i \in 1..Len(new.doc.kids[1].kids) :
                 ~HasAttr(new.doc.kids[1].kids[i].attrs, "id")

\* a variant that marks every card whose id the prior snapshot holds
MarkCardById(card, oldCards) ==
    IF OldHashGet(oldCards, AttrGet(card.attrs, "id")) # None
    THEN ElemSet(card, "skip", "1")
    ELSE card

\* a variant that marks no card
MarkCardNever(card, oldCards) == card

\* the skip flag of one card of the new document
MarkCard(card, oldCards) ==
    IF OldHashGet(oldCards, AttrGet(card.attrs, "id")) = AttrGet(card.attrs, "hash")
    THEN ElemSet(card, "skip", "1")
    ELSE card

\* a variant that marks the set whenever the prior snapshot stores a hash
MarkSetIfStored(root, oldHash, newHash) ==
    IF oldHash # "" THEN ElemSet(root, "skip", "1") ELSE root

\* the skip flag of the set
MarkSet(root, oldHash, newHash) ==
    IF oldHash = newHash THEN ElemSet(root, "skip", "1") ELSE root

\* the document calculate_hashes writes when nothing raises
HashedDoc(new, old) ==
    LET r1 == HashCards(new.doc)
        h  == FileHash(r1)
        r2 == ElemSet(r1, "hash", h)
    IN  IF old.st = "absent" THEN r2
        ELSE LET r3 == MarkSet(r2, AttrGet(old.doc.attrs, "hash"), h)
             IN  [r3 EXCEPT !.kids[1].kids =
                     [i \in 1..Len(@) |-> MarkCard(@[i], old.doc.kids[1].kids)]]

\* the (new_file_hash, old_file_hash) calculate_hashes returns
HashesReturned(new, old) ==
    << FileHash(HashCards(new.doc)),
       IF old.st = "absent" THEN "" ELSE AttrGet(old.doc.attrs, "hash") >>

\* get_skip_info on a parsed document
GetSkipInfoDoc(root) ==
    [skip_set |-> AttrGet(root.attrs, "skip") = "1",
     skip_ids |-> {AttrGet(root.kids[1].kids[i].attrs, "id") :
                      i \in {j \in 1..Len(root.kids[1].kids) :
                                AttrGet(root.kids[1].kids[j].attrs, "skip") = "1"}}]

(***************************************************************************)
(* The snapshot files and the stages that write them.                      *)
(***************************************************************************)
\* _backup_previous_xml(conf, set_id, lang)
\* a variant without the from_scratch branch
BackupIgnoresScratch(from_scratch, new, old) ==
    [new |-> Absent, old |-> IF new.st # "absent" THEN new ELSE old]

BackupPreviousXml(from_scratch, new, old) ==
    LET moved == new.st # "absent"
        old1  == IF moved THEN new ELSE old
    IN  [new |-> Absent,
         old |-> IF from_scratch /\ old1.st # "absent" THEN Absent ELSE old1]

\* The document the SaveXML macro writes for the rows of the set: one card
\* element per row, in card-number order, pretty-printed.
\* Card "a" is a player card with artwork whose Quantity varies; card "b" is
\* an encounter card.  Card ids are unique within a set.
RowsA == [id : {"a"}, qty : 1..MaxQty]
RowsB == [id : {"b"}, qty : {1}]
Sheets ==
    {<<>>} \cup {<<r>> : r \in RowsA \cup RowsB}
    \cup {<<r, s>> : r \in RowsA, s \in RowsB}

NL == <<"\n", " ">>

Property(name, value) ==
    Elem("property", << <<"name", name>>, <<"value", value>> >>, <<>>, <<>>, NL)

CardOfRow(r) ==
    Elem("card", << <<"id", r.id>> >>, NL,
         IF r.id = "a"
         THEN << Property("Type", "Ally"), Property("Quantity", ToString(r.qty)) >>
         ELSE << Property("Type", "Enemy"), Property("Encounter Set", "E"),
                 Property("Quantity", ToString(r.qty)) >>,
         NL)

SaveXML(sheet) ==
    Elem("set", << <<"id", "S">> >>, NL,
         << Elem("cards", <<>>, NL, [i \in 1..Len(sheet) |-> CardOfRow(sheet[i])], NL) >>,
         <<>>)

\* conf['strange_eons_plugin_version'] and conf['outputs'] of a run
Confs ==
    { [plugin |-> "v1", outputs |-> {"db"}],
      [plugin |-> "v2", outputs |-> {"db"}],
      [plugin |-> "v1", outputs |-> {"db", "makeplayingcards"}] }

ArtworkFile(m) ==
    [id |-> "a", side |-> "A", title |-> "Art", artist |-> <<"J", "D">>,
     ext |-> "jpg", size |-> 1, mtime |-> m]

\* the {} that _collect_pdf_images returns for a folder without files
NoImages   == [empty |-> TRUE, player |-> <<>>, encounter |-> <<>>, custom |-> <<>>]
NoSkipInfo == [skip_set |-> FALSE, skip_ids |-> {}]
NoHashes   == <<"", "">>

InitPipe ==
    /\ pc = "idle"
    /\ newFile = Absent
    /\ oldFile = Absent
    /\ artwork = ArtworkFile(0)
    /\ lastError = ""
    /\ hashes = NoHashes
    /\ skipInfo = NoSkipInfo

IdleCanon == tree = NoDoc /\ other = NoDoc /\ digests = <<>>
IdleClear == folder = {} /\ skipIds = {} /\ removed = {} /\ cleared = FALSE
IdlePdf   ==
    /\ pdfDir = [exists |-> FALSE, files |-> <<>>]
    /\ images = NoImages /\ pagesRaw = <<>> /\ pages = <<>>
    /\ drawn = <<>> /\ pdfResult = ""

IdlePack  ==
    /\ packDir = [exists |-> FALSE, files |-> <<>>] /\ packService = ""
    /\ packIndex = [done |-> FALSE, raised |-> FALSE, images |-> NoImages]
    /\ packCopies = <<>> /\ packStaged = {} /\ packResult = ""
    /\ packLog = [index |-> <<>>, staging |-> <<>>]

IdleDeck  == deckFiles = <<>> /\ deckArchive = <<>> /\ deckDone = FALSE

IdleStage ==
    /\ stagePool = [exists |-> FALSE, files |-> <<>>] /\ stageConf = {}
    /\ stageExits = <<>> /\ stageTemp = [exists |-> FALSE, files |-> {}]
    /\ stageName = "" /\ stageSteps = <<>> /\ stageOut = {} /\ stageResult = ""

IdleRuns  == runScratch = FALSE /\ runOutputs = {} /\ imgFolders = <<>>

IdleRehash == firstDoc = NoDoc

IdleArt ==
    /\ artDirs = <<>> /\ artCache = <<>> /\ artPath = ""
    /\ artReturned = <<>> /\ artWarned = {} /\ artHit = FALSE

IdleEnc   == encIn = NoDoc /\ encOut = NoDoc

Init == InitPipe /\ IdleCanon /\ IdleClear /\ IdlePdf /\ IdlePack /\ IdleDeck /\ IdleStage /\ IdleRuns /\ IdleRehash /\ IdleArt /\ IdleEnc

\* how _run_macro ends: it returns; it raises before the SaveXML macro has
\* written the snapshot (opening the workbooks, copying the sheets, inside
\* the macro); or it raises after the macro has written it (saving or
\* closing the target workbook, quitting Excel)
MacroOutcomes == {"returned", "raised", "wrote_raised"}

\* generate_xml: the backup, then the macro run
GenerateXml ==
    /\ pc = "idle"
    /\ \E from_scratch \in BOOLEAN, sheet \in Sheets, outcome \in MacroOutcomes :
        LET b == BackupPreviousXml(from_scratch, newFile, oldFile) IN
        /\ oldFile' = b.old
        /\ newFile' = IF outcome = "raised" THEN b.new ELSE File(SaveXML(sheet))
        /\ pc' = IF outcome = "returned" THEN "generated" ELSE "idle"
        /\ lastError' = IF outcome = "returned" THEN "" ELSE "generate_xml"
    /\ UNCHANGED <<artwork, hashes, skipInfo>>

\* update_xml
UpdateXml ==
    /\ pc = "generated"
    /\ \E conf \in Confs :
        newFile' = File(UpdateXmlDoc(conf.plugin, conf.outputs,
                                  Artworks(<<artwork>>, <<>>), newFile.doc))
    /\ pc' = "updated"
    /\ UNCHANGED <<oldFile, artwork, lastError, hashes, skipInfo>>

\* calculate_hashes
CalculateHashes ==
    /\ pc = "updated"
    /\ IF HashesRaise(newFile, oldFile)
       THEN /\ pc' = "idle"
            /\ lastError' = "calculate_hashes"
            /\ UNCHANGED <<newFile, hashes>>
       ELSE /\ pc' = "hashed"
            /\ newFile' = File(HashedDoc(newFile, oldFile))
            /\ hashes' = HashesReturned(newFile, oldFile)
            /\ UNCHANGED lastError
    /\ UNCHANGED <<oldFile, artwork, skipInfo>>

\* get_skip_info
GetSkipInfo ==
    /\ pc = "hashed"
    /\ skipInfo' = GetSkipInfoDoc(newFile.doc)
    /\ pc' = "skipinfo"
    /\ UNCHANGED <<newFile, oldFile, artwork, lastError, hashes>>

\* the remaining stages of the run end and the process exits
EndRun ==
    /\ pc = "skipinfo"
    /\ pc' = "idle"
    /\ hashes' = NoHashes
    /\ skipInfo' = NoSkipInfo
    /\ UNCHANGED <<newFile, oldFile, artwork, lastError>>

\* the run ends between two stages (another stage raised, or the process
\* was stopped)
AbortRun ==
    /\ pc \in {"generated", "updated", "hashed"}
    /\ pc' = "idle"
    /\ lastError' = "other"
    /\ hashes' = NoHashes
    /\ UNCHANGED <<newFile, oldFile, artwork, skipInfo>>

\* the process is stopped inside tree.write(xml_path) of update_xml or
\* calculate_hashes: the snapshot is left truncated
KilledInWrite ==
    /\ \/ pc = "generated"
       \/ pc = "updated" /\ ~HashesRaise(newFile, oldFile)
    /\ newFile' = Corrupt
    /\ pc' = "idle"
    /\ lastError' = "other"
    /\ UNCHANGED <<oldFile, artwork, hashes, skipInfo>>

\* between two runs the artwork file is saved again
TouchArtwork ==
    /\ pc = "idle"
    /\ \E m \in 0..MaxMtime : m # artwork.mtime /\ artwork' = ArtworkFile(m)
    /\ UNCHANGED <<pc, newFile, oldFile, lastError, hashes, skipInfo>>

Next ==
    \/ GenerateXml /\ UNCHANGED <<canonVars, clearVars, pdfVars, packVars, deckVars, stageVars, runsVars, rehashVars, artVars, encVars>>
    \/ UpdateXml /\ UNCHANGED <<canonVars, clearVars, pdfVars, packVars, deckVars, stageVars, runsVars, rehashVars, artVars, encVars>>
    \/ CalculateHashes /\ UNCHANGED <<canonVars, clearVars, pdfVars, packVars, deckVars, stageVars, runsVars, rehashVars, artVars, encVars>>
    \/ GetSkipInfo /\ UNCHANGED <<canonVars, clearVars, pdfVars, packVars, deckVars, stageVars, runsVars, rehashVars, artVars, encVars>>
    \/ EndRun /\ UNCHANGED <<canonVars, clearVars, pdfVars, packVars, deckVars, stageVars, runsVars, rehashVars, artVars, encVars>>
    \/ AbortRun /\ UNCHANGED <<canonVars, clearVars, pdfVars, packVars, deckVars, stageVars, runsVars, rehashVars, artVars, encVars>>
    \/ KilledInWrite /\ UNCHANGED <<canonVars, clearVars, pdfVars, packVars, deckVars, stageVars, runsVars, rehashVars, artVars, encVars>>
    \/ TouchArtwork /\ UNCHANGED <<canonVars, clearVars, pdfVars, packVars, deckVars, stageVars, runsVars, rehashVars, artVars, encVars>>

Spec == Init /\ [][Next]_vars

(***************************************************************************)
(* Properties of the snapshot pipeline (Spec).                             *)
(***************************************************************************)
NewCards == newFile.doc.kids[1].kids
OldCards == oldFile.doc.kids[1].kids

AttrDel(attrs, ks) == SelectSeq(attrs, LAMBDA a : a[1] \notin ks)

\* an element without the annotations of calculate_hashes
Authored(e) == [e EXCEPT !.attrs = AttrDel(@, {"hash", "skip"})]

\* the canonical content of a card: its canonical serialization without the
\* hash and skip annotations
Content(card) == Canonical(Authored(card))

IsSkip(e) == AttrGet(e.attrs, "skip") = "1"
CardId(card) == AttrGet(card.attrs, "id")

Hashed == pc \in {"hashed", "skipinfo"}
PriorExists == oldFile.st # "absent"

\* the prior snapshot cannot be parsed or lacks a stored fingerprint
BadOld(old) ==
    \/ old.st = "corrupt"
    \/ /\ old.st = "ok"
       /\ \/ ~HasAttr(old.doc.attrs, "hash")
          \/ \E i \in 1..Len(old.doc.kids[1].kids) :
                 ~HasAttr(old.doc.kids[1].kids[i].attrs, "hash")

\* C1: with a prior snapshot, a card of the new snapshot is marked skip iff
\* the prior snapshot holds a card with the same id and an equal stored
\* fingerprint, which is the case iff it holds a card with the same id and
\* the same canonical content.
C1_SkipIffSameFingerprint ==
    (Hashed /\ PriorExists) =>
        \A i \in 1..Len(NewCards) :
            /\ IsSkip(NewCards[i]) <=>
                   \E j \in 1..Len(OldCards) :
                       /\ CardId(OldCards[j]) = CardId(NewCards[i])
                       /\ AttrGet(OldCards[j].attrs, "hash")
                              = AttrGet(NewCards[i].attrs, "hash")
            /\ IsSkip(NewCards[i]) <=>
                   \E j \in 1..Len(OldCards) :
                       /\ CardId(OldCards[j]) = CardId(NewCards[i])
                       /\ Content(OldCards[j]) = Content(NewCards[i])

\* a second run in which card "b" is unchanged and card "a" has changed
C1_Witness ==
    /\ Hashed /\ PriorExists
    /\ Len(NewCards) = 2 /\ Len(OldCards) = 2
    /\ ~IsSkip(NewCards[1]) /\ Content(OldCards[1]) # Content(NewCards[1])
    /\ IsSkip(NewCards[2]) /\ Content(OldCards[2]) = Content(NewCards[2])

\* C2: with a prior snapshot, the set is marked skip iff the stored set
\* fingerprint of the prior snapshot equals the new one, and get_skip_info
\* reports skip_set in exactly that case.
C2_SetSkipIffSameFingerprint ==
    (Hashed /\ PriorExists) =>
        LET same == AttrGet(oldFile.doc.attrs, "hash")
                        = AttrGet(newFile.doc.attrs, "hash")
        IN  /\ IsSkip(newFile.doc) <=> same
            /\ hashes = << AttrGet(newFile.doc.attrs, "hash"),
                           AttrGet(oldFile.doc.attrs, "hash") >>
            /\ pc = "skipinfo" => (skipInfo.skip_set <=> same)

C2_Witness ==
    /\ pc = "skipinfo" /\ PriorExists
    /\ skipInfo.skip_set
    /\ Len(NewCards) = 2

\* C3: without a prior snapshot calculate_hashes does not raise and marks
\* neither the set nor a card; get_skip_info returns (False, set()).
C3_ColdStart ==
    /\ (pc = "updated" /\ ~PriorExists) => ~HashesRaise(newFile, oldFile)
    /\ (Hashed /\ ~PriorExists) =>
           /\ ~HasAttr(newFile.doc.attrs, "skip")
           /\ \A i \in 1..Len(NewCards) : ~HasAttr(NewCards[i].attrs, "skip")
           /\ hashes[2] = ""
    /\ (pc = "skipinfo" /\ ~PriorExists) => skipInfo = NoSkipInfo

C3_Witness ==
    /\ pc = "skipinfo" /\ ~PriorExists
    /\ Len(NewCards) = 2
    /\ HasAttr(newFile.doc.attrs, "hash")

\* C4: when the prior snapshot cannot be parsed or lacks the stored
\* fingerprints, the step taken from the call of calculate_hashes ends the
\* run with an error and leaves the new snapshot file as it was.
C4_BadPriorIsFatal ==
    [][ (pc = "updated" /\ BadOld(oldFile)) =>
            /\ pc' = "idle"
            /\ lastError' \in {"calculate_hashes", "other"}
            /\ newFile' = newFile
            /\ \A i \in 1..Len(NewCards) : ~HasAttr(NewCards[i].attrs, "skip")
      ]_vars

C4_Witness ==
    /\ pc = "idle" /\ lastError = "calculate_hashes"
    /\ oldFile.st = "corrupt"
    /\ newFile.st = "ok" /\ Len(NewCards) = 2
    /\ ~HasAttr(newFile.doc.attrs, "hash")

\* the prior snapshot was parsed and carries the stored fingerprints
PriorUsable == oldFile.st = "ok" /\ ~BadOld(oldFile)

\* the two snapshots hold the same ordered canonical card records
SameCardRecords ==
    /\ Len(OldCards) = Len(NewCards)
    /\ \A i \in 1..Len(NewCards) : Content(OldCards[i]) = Content(NewCards[i])

\* the attributes of the set element other than the annotations
SetAttrs(root) == AttrDel(root.attrs, {"hash", "skip"})

\* C6 as stated: two snapshots with the same ordered canonical card records
\* have the same set fingerprint, whatever else differs.
C6_HashOfCardsOnly ==
    (Hashed /\ PriorUsable /\ SameCardRecords) =>
        AttrGet(oldFile.doc.attrs, "hash") = AttrGet(newFile.doc.attrs, "hash")

\* C6 amended: two snapshots with the same set-level attributes and the same
\* ordered canonical card records have the same set fingerprint, and with
\* the same card records the fingerprints differ only if the set-level
\* attributes do.
C6_HashOfAttrsAndCards ==
    (Hashed /\ PriorUsable /\ SameCardRecords) =>
        (SetAttrs(oldFile.doc) = SetAttrs(newFile.doc)
            <=> AttrGet(oldFile.doc.attrs, "hash")
                    = AttrGet(newFile.doc.attrs, "hash"))

\* the same cards under the same configuration as in the prior run
C6_Witness ==
    /\ Hashed /\ PriorUsable /\ SameCardRecords
    /\ Len(NewCards) = 2
    /\ SetAttrs(oldFile.doc) = SetAttrs(newFile.doc)
    /\ IsSkip(newFile.doc)

\* card i with the Quantity value of the other card
WithQuantityOf(card, otherCard) ==
    SetProperty(card, "Quantity",
                AttrGet(FindProperties(otherCard, "Quantity")[1].attrs, "value"))

\* the two snapshots differ only in the Quantity of card i
DifferInQuantityOf(i) ==
    /\ SetAttrs(oldFile.doc) = SetAttrs(newFile.doc)
    /\ Len(OldCards) = Len(NewCards)
    /\ i \in 1..Len(NewCards)
    /\ Content(OldCards[i]) # Content(NewCards[i])
    /\ Content(OldCards[i]) = Content(WithQuantityOf(NewCards[i], OldCards[i]))
    /\ \A j \in 1..Len(NewCards) :
           j # i => Content(OldCards[j]) = Content(NewCards[j])

\* C7: when the new snapshot differs from the prior one only in the Quantity
\* of one card, the set fingerprints differ and the set is not marked skip.
C7_QuantityChangesSetHash ==
    (Hashed /\ PriorUsable) =>
        \A i \in 1..Len(NewCards) :
            DifferInQuantityOf(i) =>
                /\ AttrGet(oldFile.doc.attrs, "hash")
                       # AttrGet(newFile.doc.attrs, "hash")
                /\ ~IsSkip(newFile.doc)
                /\ hashes[1] # hashes[2]

C7_Witness ==
    /\ pc = "skipinfo" /\ PriorUsable
    /\ Len(NewCards) = 2
    /\ DifferInQuantityOf(1)
    /\ ~skipInfo.skip_set /\ skipInfo.skip_ids = {"b"}

\* what get_skip_info returns when the run continues from the snapshot that
\* generate_xml wrote, under configuration conf, with the artwork file
\* modified at time m
RunMarks(conf, m) ==
    GetSkipInfoDoc(
        HashedDoc(File(UpdateXmlDoc(conf.plugin, conf.outputs,
                                    Artworks(<<ArtworkFile(m)>>, <<>>),
                                    newFile.doc)),
                  oldFile))

\* C8 as stated: two runs that differ only in the modification time of the
\* artwork file mark the same cards and set.
C8_MarksIgnoreMtime ==
    (pc = "generated" /\ (oldFile.st = "absent" \/ PriorUsable)) =>
        \A conf \in Confs : \A m1, m2 \in 0..MaxMtime :
            RunMarks(conf, m1) = RunMarks(conf, m2)

\* C8 amended: the marks of two such runs agree when the two modification
\* times agree in whole seconds; when they do not, a card that uses the
\* artwork file is marked skip in at most one of the two runs, and so is the
\* set that holds it.
C8_MarksFollowWholeSeconds ==
    (pc = "generated" /\ (oldFile.st = "absent" \/ PriorUsable)) =>
        \A conf \in Confs : \A m1, m2 \in 0..MaxMtime :
            LET r1 == RunMarks(conf, m1)
                r2 == RunMarks(conf, m2)
                uses == \E i \in 1..Len(NewCards) : CardId(NewCards[i]) = "a"
            IN  /\ m1 \div TicksPerSecond = m2 \div TicksPerSecond => r1 = r2
                /\ (m1 \div TicksPerSecond # m2 \div TicksPerSecond /\ uses) =>
                       /\ ~("a" \in r1.skip_ids /\ "a" \in r2.skip_ids)
                       /\ ~(r1.skip_set /\ r2.skip_set)

\* a run after the artwork file was saved again: the card that uses it has
\* the authored content of the prior run and is not marked, the other is
C8_Witness ==
    /\ pc = "skipinfo" /\ PriorUsable
    /\ Len(NewCards) = 2 /\ Len(OldCards) = 2
    /\ SetAttrs(oldFile.doc) = SetAttrs(newFile.doc)
    /\ Content(OldCards[1]) # Content(NewCards[1])
    /\ Content(SetProperty(OldCards[1], "Artwork Modified", "x"))
           = Content(SetProperty(NewCards[1], "Artwork Modified", "x"))
    /\ skipInfo.skip_ids = {"b"} /\ ~skipInfo.skip_set

\* C24 as stated: when a run comes to calculate_hashes with a prior snapshot
\* that an earlier run wrote whole (a run that ended before calculate_hashes
\* stored the fingerprints included), calculate_hashes does not raise.
C24_AbortedRunRecovers ==
    (pc = "updated" /\ newFile.st = "ok" /\ oldFile.st = "ok") =>
        ~HashesRaise(newFile, oldFile)

\* C26: when the set of the new snapshot is marked skip, every card of it is
\* marked skip, and get_skip_info returns the ids of all its cards.
C26_SetSkipImpliesCardSkips ==
    /\ (Hashed /\ IsSkip(newFile.doc)) =>
           \A i \in 1..Len(NewCards) : IsSkip(NewCards[i])
    /\ (pc = "skipinfo" /\ skipInfo.skip_set) =>
           skipInfo.skip_ids = {CardId(NewCards[i]) : i \in 1..Len(NewCards)}

\* a run on an unchanged two-card set: the set is marked and so are both cards
C26_Witness ==
    /\ pc = "skipinfo" /\ PriorUsable
    /\ IsSkip(newFile.doc)
    /\ Len(NewCards) = 2
    /\ skipInfo.skip_ids = {"a", "b"}

(***************************************************************************)
(* SpecCanon: the per-card fingerprint of calculate_hashes applied to two  *)
(* card trees with the same elements and attributes that differ in one     *)
(* whitespace-only text node.                                              *)
(***************************************************************************)
RECURSIVE SeqsUpTo(_, _)
SeqsUpTo(S, n) ==
    IF n = 0 THEN {<<>>}
    ELSE LET shorter == SeqsUpTo(S, n - 1)
         IN  shorter \cup {Append(w, c) : w \in shorter, c \in S}

\* the sequences that hold each element of S once, in any order
RECURSIVE Listings(_)
Listings(S) ==
    IF S = {} THEN {<<>>}
    ELSE UNION {{<<f>> \o l : l \in Listings(S \ {f})} : f \in S}

\* the whitespace-only text nodes of the model
WsNodes == SeqsUpTo({"\n", " ", "\r", " "}, MaxWsLen)

\* a card without children, or with one property
CardTrees ==
    {Elem("card", << <<"id", "a">> >>, text, <<>>, tail) :
        text \in WsNodes, tail \in WsNodes}
    \cup
    {Elem("card", << <<"id", "a">> >>, text,
          << Elem("property", << <<"name", "Quantity">>, <<"value", "1">> >>,
                  <<>>, <<>>, ptail) >>,
          tail) :
        text \in WsNodes, ptail \in WsNodes, tail \in WsNodes}

InitCanon ==
    /\ tree \in CardTrees
    /\ other = tree
    /\ digests = <<>>

\* the second tree: one whitespace-only text node of the card is replaced
ChangeWhitespace ==
    /\ digests = <<>> /\ other = tree
    /\ \E w \in WsNodes :
        \/ w # tree.text /\ other' = [tree EXCEPT !.text = w]
        \/ w # tree.tail /\ other' = [tree EXCEPT !.tail = w]
        \/ /\ tree.kids # <<>>
           /\ w # tree.kids[1].tail
           /\ other' = [tree EXCEPT !.kids[1].tail = w]
    /\ UNCHANGED <<tree, digests>>

\* card_hash of both trees
HashBoth ==
    /\ digests = <<>> /\ other # tree
    /\ digests' = <<ElemHash(tree), ElemHash(other)>>
    /\ UNCHANGED <<tree, other>>

NextCanon ==
    \/ ChangeWhitespace /\ UNCHANGED <<pipeVars, clearVars, pdfVars, packVars, deckVars, stageVars, runsVars, rehashVars, artVars, encVars>>
    \/ HashBoth /\ UNCHANGED <<pipeVars, clearVars, pdfVars, packVars, deckVars, stageVars, runsVars, rehashVars, artVars, encVars>>

\* a card tree, everything else at rest
CanonStart == InitPipe /\ InitCanon /\ IdleClear /\ IdlePdf /\ IdlePack /\ IdleDeck /\ IdleStage /\ IdleRuns /\ IdleRehash /\ IdleArt /\ IdleEnc

SpecCanon == CanonStart /\ [][NextCanon]_vars

\* C5 as stated: two card trees that differ only in whitespace-only text get
\* the same fingerprint.
C5_WhitespaceIgnored == digests # <<>> => digests[1] = digests[2]

\* a whitespace-only text node that is absent or begins with a line break
LineBroken(w) == w = <<>> \/ Head(w) = "\n"

\* the node has the values a and b in the two trees; sole tells that it is
\* the text of an element without children
SameOrLineBroken(a, b, sole) ==
    \/ a = b
    \/ /\ LineBroken(a) /\ LineBroken(b)
       /\ sole => ((a = <<>>) <=> (b = <<>>))

\* C5 amended: the two trees get the same fingerprint when every whitespace
\* node inside the card in which they differ is, in both trees, absent or
\* led by a line break, and is not the only content of a childless element
\* in one tree and absent in the other; whitespace after the card's end tag
\* never matters.
C5_LineBreakWhitespaceIgnored ==
    (/\ digests # <<>>
     /\ SameOrLineBroken(tree.text, other.text, tree.kids = <<>>)
     /\ \A i \in 1..Len(tree.kids) :
            SameOrLineBroken(tree.kids[i].tail, other.kids[i].tail, FALSE))
        => digests[1] = digests[2]

\* a one-line card and the same card with a line break and indentation
C5_Witness ==
    /\ digests # <<>>
    /\ tree.kids # <<>>
    /\ tree.text = <<>> /\ other.text = <<"\n", " ">>
    /\ digests[1] = digests[2]

(***************************************************************************)
(* SpecClear: _clear_modified_images(folder, skip_ids).  A filename and a  *)
(* card id are sequences of characters; folder holds the names of the      *)
(* top-level files of the image folder.                                    *)
(***************************************************************************)
IdSlotStart == 50
IdSlotEnd   == 86

Min(a, b) == IF a < b THEN a ELSE b

\* s[lo:hi] of Python, for 0 <= lo <= hi
Slice(s, lo, hi) == SubSeq(s, lo + 1, Min(hi, Len(s)))

\* s.split('.')[-1]
RECURSIVE LastPart(_)
LastPart(s) ==
    IF s = <<>> THEN <<>>
    ELSE IF s[Len(s)] = "." THEN <<>>
    ELSE Append(LastPart(SubSeq(s, 1, Len(s) - 1)), s[Len(s)])

\* a variant that cuts the slot one character short
CardIdSlotShort(filename) == Slice(filename, IdSlotStart, IdSlotEnd - 1)

\* card_id = filename[50:86]
CardIdSlot(filename) == Slice(filename, IdSlotStart, IdSlotEnd)

\* the files the loop of _clear_modified_images removes
Outdated(filenames, skip_ids) ==
    {f \in filenames :
        /\ LastPart(f) \in {<<"j", "p", "g">>, <<"p", "n", "g">>}
        /\ CardIdSlot(f) \notin skip_ids}

Chars(c, n) == [i \in 1..n |-> c]

\* 36-character card ids
GuidA == Chars("a", IdSlotEnd - IdSlotStart)
GuidB == Chars("b", IdSlotEnd - IdSlotStart)

\* the 50 characters the renderer writes before the card id
Lead == Chars("x", IdSlotStart)

\* the filenames of the model
Filenames ==
    { Lead \o GuidA \o <<"-", "1", ".", "p", "n", "g">>,
      Lead \o GuidA \o <<"-", "2", ".", "p", "n", "g">>,
      Lead \o GuidB \o <<".", "j", "p", "g">>,
      Lead \o GuidB \o <<".", "t", "i", "f">>,
      Lead \o GuidA \o <<".", "P", "N", "G">>,
      Tail(Lead) \o GuidA \o <<".", "p", "n", "g">>,
      <<"b", ".", "j", "p", "g">>,
      <<"p", "n", "g">> }

InitClear ==
    /\ folder \in SUBSET Filenames
    /\ skipIds \in SUBSET {GuidA, GuidB}
    /\ removed = {}
    /\ cleared = FALSE

\* _clear_modified_images(folder, skip_ids)
ClearModifiedImages ==
    /\ ~cleared
    /\ removed' = Outdated(folder, skipIds)
    /\ folder' = folder \ Outdated(folder, skipIds)
    /\ cleared' = TRUE
    /\ UNCHANGED skipIds

NextClear == ClearModifiedImages /\ UNCHANGED <<pipeVars, canonVars, pdfVars, packVars, deckVars, stageVars, runsVars, rehashVars, artVars, encVars>>

\* a folder and a skip set, everything else at rest
ClearStart == InitPipe /\ IdleCanon /\ InitClear /\ IdlePdf /\ IdlePack /\ IdleDeck /\ IdleStage /\ IdleRuns /\ IdleRehash /\ IdleArt /\ IdleEnc

SpecClear == ClearStart /\ [][NextClear]_vars

\* the name ends in jpg or png after its last dot (a name without a dot
\* counts whole, as split('.') takes it)
IsJpgPng(f) ==
    LET dots == {i \in 1..Len(f) : f[i] = "."}
        from == IF dots = {} THEN 1
                ELSE (CHOOSE i \in dots : \A j \in dots : j <= i) + 1
    IN  [i \in 1..(Len(f) - from + 1) |-> f[from + i - 1]]
            \in {<<"j", "p", "g">>, <<"p", "n", "g">>}

\* characters 50..85 of the name, counted from 0
IdentifierSlot(f) ==
    [i \in 1..(Min(Len(f), IdSlotEnd) - Min(Len(f), IdSlotStart)) |->
        f[IdSlotStart + i]]

\* C9: after _clear_modified_images the jpg/png files of the folder are the
\* jpg/png files that were there and carry an identifier of skip_ids in
\* characters 50..85; the others were deleted; files with another extension
\* are all still there.
C9_StalePruning ==
    cleared =>
        LET before == folder \cup removed IN
        /\ {f \in folder : IsJpgPng(f)}
               = {f \in before : IsJpgPng(f) /\ IdentifierSlot(f) \in skipIds}
        /\ removed = {f \in before : IsJpgPng(f) /\ IdentifierSlot(f) \notin skipIds}
        /\ {f \in folder : ~IsJpgPng(f)} = {f \in before : ~IsJpgPng(f)}

\* card A is in the skip set: its two images stay, the image of card B and
\* the image with a shifted identifier go, the tif stays
C9_Witness ==
    /\ cleared
    /\ skipIds = {GuidA}
    /\ folder \cup removed = Filenames
    /\ Lead \o GuidA \o <<"-", "1", ".", "p", "n", "g">> \in folder
    /\ Lead \o GuidB \o <<".", "j", "p", "g">> \in removed
    /\ Tail(Lead) \o GuidA \o <<".", "p", "n", "g">> \in removed
    /\ Lead \o GuidB \o <<".", "t", "i", "f">> \in folder

(***************************************************************************)
(* SpecPdf: generate_pdf over the png300PDF folder of the pair.  A         *)
(* filename is held as filename.split('-'); a path is a string.            *)
(***************************************************************************)
SlotsPerPage == 6

\* os.path.join(input_path, filename)
PdfPath(parts) == "png300PDF/" \o Join(parts, "-")

PlayerBack    == "imagesBack/playerBackOfficial.png"
EncounterBack == "imagesBack/encounterBackOfficial.png"

\* parts[:-1]
ButLast(parts) == SubSeq(parts, 1, Len(parts) - 1)

\* '{}-2.png'.format('-'.join(parts[:-1])), split at the dashes again: the
\* dash of the format string is there also when parts[:-1] is empty
BackName(parts) ==
    (IF Len(parts) = 1 THEN <<"">> ELSE ButLast(parts)) \o <<"2.png">>

IsFront(parts) == parts[Len(parts)] = "1.png"

InListing(files, name) == \E i \in 1..Len(files) : files[i] = name

\* indexing parts[2] or parts[1] raises IndexError for this front image
IndexRaises(files, parts) ==
    IF InListing(files, BackName(parts)) THEN Len(parts) < 2 ELSE Len(parts) < 3

\* back_type of a front image, "" when the file is dropped with an error
BackType(files, parts) ==
    IF InListing(files, BackName(parts)) THEN "custom"
    ELSE IF parts[3] = "p" THEN "player"
    ELSE IF parts[3] = "e" THEN "encounter"
    ELSE ""

BackPath(files, parts) ==
    IF InListing(files, BackName(parts)) THEN PdfPath(BackName(parts))
    ELSE IF parts[3] = "p" THEN PlayerBack
    ELSE EncounterBack

Copies(parts) == IF parts[2] = "p" THEN 3 ELSE 1

\* the entries one front image appends to images[back_type]
Entries(files, parts) ==
    [c \in 1..Copies(parts) |-> <<PdfPath(parts), BackPath(files, parts)>>]

\* images[key] after the loop over the first n filenames
RECURSIVE Bucket(_, _, _)
Bucket(files, key, n) ==
    IF n = 0 THEN <<>>
    ELSE Bucket(files, key, n - 1)
         \o (IF IsFront(files[n]) /\ BackType(files, files[n]) = key
             THEN Entries(files, files[n]) ELSE <<>>)

\* _collect_pdf_images(input_path): raised tells that it ends in an
\* exception (the folder is missing and images is unbound, or an index is out
\* of range)
CollectPdfImages(dir) ==
    IF ~dir.exists
    THEN [raised |-> TRUE, images |-> NoImages]
    ELSE IF dir.files = <<>>
    THEN [raised |-> FALSE, images |-> NoImages]
    ELSE IF \E i \in 1..Len(dir.files) :
                IsFront(dir.files[i]) /\ IndexRaises(dir.files, dir.files[i])
    THEN [raised |-> TRUE, images |-> NoImages]
    ELSE [raised |-> FALSE,
          images |-> [empty     |-> FALSE,
                      player    |-> Bucket(dir.files, "player", Len(dir.files)),
                      encounter |-> Bucket(dir.files, "encounter", Len(dir.files)),
                      custom    |-> Bucket(dir.files, "custom", Len(dir.files))]]

NoPair == <<None, None>>

\* math.ceil(n / 6)
CeilDiv(n, d) == (n + d - 1) \div d

\* (pairs[i * 6:(i + 1) * 6] + [None] * 6)[:6] for i in range(ceil(len / 6))
Chunks(pairs) ==
    [g \in 1..CeilDiv(Len(pairs), SlotsPerPage) |->
        [k \in 1..SlotsPerPage |->
            IF (g - 1) * SlotsPerPage + k <= Len(pairs)
            THEN pairs[(g - 1) * SlotsPerPage + k]
            ELSE NoPair]]

\* a variant that cuts the three buckets as one list
PagesRawMixed(imgs) == Chunks(imgs.player \o imgs.encounter \o imgs.custom)

\* pages_raw: the groups of the buckets, in the key order of the dictionary
PagesRaw(imgs) == Chunks(imgs.player) \o Chunks(imgs.encounter) \o Chunks(imgs.custom)

\* a variant that keeps the order of the front page
BackOrderSame == <<1, 2, 3, 4, 5, 6>>

\* [back_page[2], back_page[1], back_page[0], back_page[5], back_page[4],
\*  back_page[3]], as positions counted from 1
BackOrder == <<3, 2, 1, 6, 5, 4>>

FrontPage(group) == [k \in 1..SlotsPerPage |-> group[k][1]]
BackPage(group)  == [k \in 1..SlotsPerPage |-> group[BackOrder[k]][2]]

\* pages: a front page and a back page per group
RECURSIVE Pages(_)
Pages(raw) ==
    IF raw = <<>> THEN <<>>
    ELSE <<FrontPage(Head(raw)), BackPage(Head(raw))>> \o Pages(Tail(raw))

\* page sizes and card size in 1/1000 point: landscape(A4), landscape(letter),
\* 2.75 inch, 3.75 inch
PageWidth(format)  == IF format = "A4" THEN 841890 ELSE 792000
PageHeight(format) == IF format = "A4" THEN 595276 ELSE 612000
CardWidth  == 198000
CardHeight == 270000

WidthMargin(format)  == (PageWidth(format) - 3 * CardWidth) \div 2
HeightMargin(format) == (PageHeight(format) - 2 * CardHeight) \div 2

\* the drawImage call for slot i (counted from 0) of a page
DrawCall(format, i, card) ==
    [card |-> card,
     x |-> IF 2 * i < SlotsPerPage
           THEN WidthMargin(format) + i * CardWidth
           ELSE WidthMargin(format) + (i - SlotsPerPage \div 2) * CardWidth,
     y |-> IF 2 * i < SlotsPerPage
           THEN HeightMargin(format) + CardHeight
           ELSE HeightMargin(format)]

\* the drawImage calls of one page, by slot; None for a slot left empty
DrawPage(format, page) ==
    [k \in 1..SlotsPerPage |->
        IF page[k] # None THEN DrawCall(format, k - 1, page[k])
        ELSE [card |-> None, x |-> 0, y |-> 0]]

Formats == {"A4", "Letter"}

\* the files the folder may hold: two player cards of three copies and one
\* of a single copy, an encounter card, the card C with a back image of its
\* own, and an image whose name has no dash.  The front of C alone has
\* neither a back nor a role, its back alone has no front.
PdfFiles ==
    { <<"P", "p", "p", "P", "1.png">>,
      <<"Q", "p", "p", "Q", "1.png">>,
      <<"R", "e", "p", "R", "1.png">>,
      <<"E", "e", "e", "E", "1.png">>,
      <<"C", "e", "c", "C", "1.png">>,
      <<"C", "e", "c", "C", "2.png">>,
      <<"1.png">> }

\* the listings os.walk may return for a folder of some of the files: the
\* order is that of the directory entries, which is any order
PdfListings == UNION {Listings(S) : S \in SUBSET PdfFiles}

InitPdf ==
    /\ pdfDir \in {[exists |-> FALSE, files |-> <<>>]}
                  \cup {[exists |-> TRUE, files |-> l] : l \in PdfListings}
    /\ images = NoImages /\ pagesRaw = <<>> /\ pages = <<>>
    /\ drawn = <<>> /\ pdfResult = ""

\* generate_pdf(set_id, set_name, lang)
GeneratePdf ==
    /\ pdfResult = ""
    /\ LET r == CollectPdfImages(pdfDir) IN
       IF r.raised
       THEN /\ pdfResult' = "raised"
            /\ UNCHANGED <<images, pagesRaw, pages, drawn>>
       ELSE IF r.images.empty
       THEN /\ pdfResult' = "no_cards"
            /\ images' = r.images
            /\ UNCHANGED <<pagesRaw, pages, drawn>>
       ELSE /\ pdfResult' = "written"
            /\ images' = r.images
            /\ pagesRaw' = PagesRaw(r.images)
            /\ pages' = Pages(PagesRaw(r.images))
            /\ drawn' = [f \in Formats |->
                            [n \in 1..Len(Pages(PagesRaw(r.images))) |->
                                DrawPage(f, Pages(PagesRaw(r.images))[n])]]
    /\ UNCHANGED pdfDir

NextPdf == GeneratePdf /\ UNCHANGED <<pipeVars, canonVars, clearVars, packVars, deckVars, stageVars, runsVars, rehashVars, artVars, encVars>>

\* an image folder, everything else at rest
PdfStart == InitPipe /\ IdleCanon /\ IdleClear /\ InitPdf /\ IdlePack /\ IdleDeck /\ IdleStage /\ IdleRuns /\ IdleRehash /\ IdleArt /\ IdleEnc

SpecPdf == PdfStart /\ [][NextPdf]_vars

\* the slot of the front sheet whose pair has its back at slot i of the back
\* sheet, slots counted from 0: [2, 1, 0, 5, 4, 3]
MirrorSlot(i) == <<2, 1, 0, 5, 4, 3>>[i + 1]

\* C10: in every group the back sheet holds at slot i the back of the pair
\* whose front is at slot [2,1,0,5,4,3][i] of the front sheet, an empty
\* front slot gives an empty back slot at the mirrored position, and every
\* back is drawn in the row of its front, in the mirrored column.
C10_MirrorLaw ==
    pdfResult = "written" =>
        /\ Len(pages) = 2 * Len(pagesRaw)
        /\ \A g \in 1..Len(pagesRaw) : \A i \in 0..(SlotsPerPage - 1) :
            LET front == pages[2 * g - 1]
                back  == pages[2 * g]
                j     == MirrorSlot(i)
            IN  /\ front[j + 1] = pagesRaw[g][j + 1][1]
                /\ back[i + 1] = pagesRaw[g][j + 1][2]
                /\ (front[j + 1] = None) <=> (back[i + 1] = None)
                /\ \A f \in Formats :
                    LET df == drawn[f][2 * g - 1][j + 1]
                        db == drawn[f][2 * g][i + 1]
                    IN  /\ df.card = front[j + 1] /\ db.card = back[i + 1]
                        /\ front[j + 1] # None =>
                            /\ db.y = df.y
                            /\ df.y = IF j < 3 THEN HeightMargin(f) + CardHeight
                                      ELSE HeightMargin(f)
                            /\ df.x = WidthMargin(f) + (j % 3) * CardWidth
                            /\ db.x = WidthMargin(f) + (2 - (j % 3)) * CardWidth

\* four player pairs, the card of a single copy listed last: the fourth
\* front is at slot 3 of the front sheet and its back at slot 5 of the back
\* sheet; the card C is at slot 0 of the front sheet of its group and its
\* back at slot 2 of the back sheet
C10_Witness ==
    /\ pdfResult = "written"
    /\ Len(images.player) = 4 /\ images.encounter = <<>>
    /\ Len(pagesRaw) = 2
    /\ pages[1][4] = PdfPath(<<"R", "e", "p", "R", "1.png">>)
    /\ pages[2] = <<PlayerBack, PlayerBack, PlayerBack, None, None, PlayerBack>>
    /\ pages[3] = << PdfPath(<<"C", "e", "c", "C", "1.png">>),
                     None, None, None, None, None >>
    /\ pages[4] = << None, None, PdfPath(<<"C", "e", "c", "C", "2.png">>),
                     None, None, None >>

(***************************************************************************)
(* Properties of the sheets and of the image index (SpecPdf).              *)
(***************************************************************************)
\* the pairs held by the slots of a run of groups, slots left empty skipped
RECURSIVE FilledSlots(_)
FilledSlots(groups) ==
    IF groups = <<>> THEN <<>>
    ELSE SelectSeq(Head(groups), LAMBDA p : p # NoPair) \o FilledSlots(Tail(groups))

\* the least number of groups of SlotsPerPage slots that hold n pairs
GroupsFor(n) == CHOOSE c \in 0..n : SlotsPerPage * c >= n /\ SlotsPerPage * (c - 1) < n

\* C11: the groups of pages_raw are the groups of the player bucket, then of
\* the encounter bucket, then of the custom bucket; the slots of the groups
\* of a bucket hold its pairs in order, each once; a group is padded on the
\* right only, and only the last group of a bucket is; the pages are front
\* sheet, back sheet per group, 2 * sum of ceil(n / 6) in all.
C11_SheetChunking ==
    pdfResult = "written" =>
        LET gp == GroupsFor(Len(images.player))
            ge == GroupsFor(Len(images.encounter))
            gc == GroupsFor(Len(images.custom))
        IN  /\ Len(pagesRaw) = gp + ge + gc
            /\ FilledSlots(SubSeq(pagesRaw, 1, gp)) = images.player
            /\ FilledSlots(SubSeq(pagesRaw, gp + 1, gp + ge)) = images.encounter
            /\ FilledSlots(SubSeq(pagesRaw, gp + ge + 1, gp + ge + gc)) = images.custom
            /\ \A g \in 1..Len(pagesRaw) :
                /\ Len(pagesRaw[g]) = SlotsPerPage
                /\ pagesRaw[g][1] # NoPair
                /\ \A k \in 1..(SlotsPerPage - 1) :
                       pagesRaw[g][k] = NoPair => pagesRaw[g][k + 1] = NoPair
                /\ g \notin {gp, gp + ge, gp + ge + gc} =>
                       pagesRaw[g][SlotsPerPage] # NoPair
            /\ Len(pages) = 2 * (gp + ge + gc)
            /\ \A g \in 1..Len(pagesRaw) :
                /\ pages[2 * g - 1] = [k \in 1..SlotsPerPage |-> pagesRaw[g][k][1]]
                /\ \A k \in 1..SlotsPerPage :
                       Cardinality({j \in 1..SlotsPerPage :
                                       pages[2 * g][j] = pagesRaw[g][k][2]})
                         = Cardinality({j \in 1..SlotsPerPage :
                                           pagesRaw[g][j][2] = pagesRaw[g][k][2]})

\* seven player pairs in a full and a padded group, then a padded encounter
\* group, then a padded group of one custom pair
C11_Witness ==
    /\ pdfResult = "written"
    /\ Len(images.player) = 7 /\ Len(images.encounter) = 1 /\ Len(images.custom) = 1
    /\ Len(pagesRaw) = 4 /\ Len(pages) = 8
    /\ pagesRaw[1][SlotsPerPage] # NoPair /\ pagesRaw[2][2] = NoPair
    /\ pagesRaw[3][2] = NoPair /\ pagesRaw[4][2] = NoPair

\* a front image of the folder whose back is resolved
Resolvable(files, parts) ==
    /\ IsFront(parts)
    /\ \/ InListing(files, BackName(parts))
       \/ Len(parts) >= 3 /\ parts[3] \in {"p", "e"}

\* the folder yields no (front, back) pair: it is missing, empty, or holds no
\* front image with a resolvable back
ZeroPairs(dir) ==
    \/ ~dir.exists
    \/ \A i \in 1..Len(dir.files) : ~Resolvable(dir.files, dir.files[i])

\* C12: whenever the folder yields no pair, generate_pdf ends with the
\* reported error, without raising and without writing a document.
C12_ZeroPairsReported ==
    (pdfResult # "" /\ ZeroPairs(pdfDir)) => pdfResult = "no_cards"

(***************************************************************************)
(* SpecPack: _prepare_printing_images(input_path, output_path, service)    *)
(* and _collect_pdf_images(input_path) over one image folder.  A filename  *)
(* is a sequence of characters; a path is [dir, name].                     *)
(***************************************************************************)
IdWidth == 36

Png == <<"p", "n", "g">>
Jpg == <<"j", "p", "g">>

\* file_type = 'png' if service == 'mpc' else 'jpg'
FileType(service) == IF service = "mpc" THEN Png ELSE Jpg

\* s.split('-')
RECURSIVE SplitDash(_)
SplitDash(s) ==
    LET dashes == {i \in 1..Len(s) : s[i] = "-"} IN
    IF dashes = {} THEN <<s>>
    ELSE LET i == CHOOSE d \in dashes : \A e \in dashes : d <= e
         IN  <<SubSeq(s, 1, i - 1)>> \o SplitDash(SubSeq(s, i + 1, Len(s)))

\* '-'.join(parts)
RECURSIVE JoinDash(_)
JoinDash(parts) ==
    IF parts = <<>> THEN <<>>
    ELSE IF Len(parts) = 1 THEN parts[1]
    ELSE parts[1] \o <<"-">> \o JoinDash(Tail(parts))

StartsWith(s, t) == Len(s) >= Len(t) /\ SubSeq(s, 1, Len(t)) = t

\* a in b, for strings
IsSubstr(a, b) ==
    \E i \in 0..(Len(b) - Len(a)) : SubSeq(b, i + 1, i + Len(a)) = a

\* re.sub(r'.{36}(?=-1\.(?:png|jpg))', '', s), and the same for -2
RECURSIVE RemoveId(_, _)
RemoveId(s, side) ==
    IF s = <<>> THEN <<>>
    ELSE IF /\ Len(s) >= IdWidth
            /\ \/ StartsWith(SubSeq(s, IdWidth + 1, Len(s)), <<"-", side, ".">> \o Png)
               \/ StartsWith(SubSeq(s, IdWidth + 1, Len(s)), <<"-", side, ".">> \o Jpg)
    THEN RemoveId(SubSeq(s, IdWidth + 1, Len(s)), side)
    ELSE <<Head(s)>> \o RemoveId(Tail(s), side)

\* re.sub('-+', '-', s)
RECURSIVE CollapseDashes(_)
CollapseDashes(s) ==
    IF s = <<>> THEN <<>>
    ELSE IF Head(s) = "-" /\ Len(s) >= 2 /\ s[2] = "-" THEN CollapseDashes(Tail(s))
    ELSE <<Head(s)>> \o CollapseDashes(Tail(s))

\* re.sub(r'-(?:e|p)-', '-', s)
RECURSIVE StripMarkers(_)
StripMarkers(s) ==
    IF s = <<>> THEN <<>>
    ELSE IF Len(s) >= 3 /\ s[1] = "-" /\ s[2] \in {"e", "p"} /\ s[3] = "-"
    THEN <<"-">> \o StripMarkers(SubSeq(s, 4, Len(s)))
    ELSE <<Head(s)>> \o StripMarkers(Tail(s))

\* the name under output_path of a staged file
OutName(s, side) == StripMarkers(CollapseDashes(RemoveId(s, side)))

InputPath(name)  == [dir |-> "input", name |-> name]
OutputPath(name) == [dir |-> "output", name |-> name]
BackImage(name)  == [dir |-> "imagesBack", name |-> <<name>>]

\* no back image
NoBack == [dir |-> "", name |-> <<>>]

\* parts[-1] not in '1.{}'.format(file_type): continue
PackIsFront(parts, ft) == IsSubstr(parts[Len(parts)], <<"1", ".">> \o ft)

\* '{}-2.{}'.format('-'.join(parts[:-1]), file_type)
PackBackName(parts, ft) == JoinDash(ButLast(parts)) \o <<"-", "2", ".">> \o ft

\* a variant that looks at the role marker before the sibling file
PackBackSourceRoleFirst(files, parts, service) ==
    IF Len(parts) >= 3 /\ parts[3] = <<"p">>
    THEN BackImage(IF service = "mpc" THEN "playerBackUnofficialMPC.png"
                   ELSE "playerBackOfficialDTC.jpg")
    ELSE IF Len(parts) >= 3 /\ parts[3] = <<"e">>
    THEN BackImage(IF service = "mpc" THEN "encounterBackUnofficialMPC.png"
                   ELSE "encounterBackOfficialDTC.jpg")
    ELSE IF InListing(files, PackBackName(parts, FileType(service)))
    THEN InputPath(PackBackName(parts, FileType(service)))
    ELSE NoBack

\* back_path of a front image; NoBack when none is resolved
PackBackSource(files, parts, service) ==
    IF InListing(files, PackBackName(parts, FileType(service)))
    THEN InputPath(PackBackName(parts, FileType(service)))
    ELSE IF parts[3] = <<"p">>
    THEN BackImage(IF service = "mpc" THEN "playerBackUnofficialMPC.png"
                   ELSE "playerBackOfficialDTC.jpg")
    ELSE IF parts[3] = <<"e">>
    THEN BackImage(IF service = "mpc" THEN "encounterBackUnofficialMPC.png"
                   ELSE "encounterBackOfficialDTC.jpg")
    ELSE NoBack

\* the file is logged as missing its back and skipped
PackDropped(files, parts, service) == PackBackSource(files, parts, service) = NoBack

\* parts[2] or parts[1] is out of range for this front image
PackIndexRaises(files, parts, service) ==
    IF InListing(files, PackBackName(parts, FileType(service)))
    THEN Len(parts) < 2
    ELSE Len(parts) < 3

\* a variant that takes the copies from the role marker
PackReplicatedByRole(parts) == parts[3] = <<"p">>

\* if parts[1] == 'p': three numbered copies
PackReplicated(parts) == parts[2] = <<"p">>

\* the two shutil.copyfile calls for one copy of the front image filename
CopyPair(filename, parts, back, ft) ==
    << [front |-> filename, src |-> InputPath(filename),
        dst |-> OutputPath(OutName(JoinDash(parts), "1"))],
       [front |-> filename, src |-> back,
        dst |-> OutputPath(OutName(PackBackName(parts, ft), "2"))] >>

\* parts[1] = str(i + 1)
WithCopyNumber(parts, n) == [parts EXCEPT ![2] = <<ToString(n)>>]

\* the copyfile calls of one iteration of the loop over filenames
FileCopies(files, filename, service) ==
    LET parts == SplitDash(filename)
        ft    == FileType(service)
        back  == PackBackSource(files, parts, service)
    IN  IF ~PackIsFront(parts, ft) \/ PackDropped(files, parts, service) THEN <<>>
        ELSE IF PackReplicated(parts)
        THEN CopyPair(filename, WithCopyNumber(parts, 1), back, ft)
             \o CopyPair(filename, WithCopyNumber(parts, 2), back, ft)
             \o CopyPair(filename, WithCopyNumber(parts, 3), back, ft)
        ELSE CopyPair(filename, parts, back, ft)

\* the copyfile calls of the first n iterations
RECURSIVE CopiesUpTo(_, _, _)
CopiesUpTo(files, n, service) ==
    IF n = 0 THEN <<>>
    ELSE CopiesUpTo(files, n - 1, service) \o FileCopies(files, files[n], service)

\* _prepare_printing_images over the listing of the folder (no filename
\* when the folder is missing): the copyfile calls made, the filenames
\* logged as missing their back, and whether the loop ended in an
\* IndexError, which ends it at the first filename that raises
PreparePrintingOps(files, service) ==
    LET bad == {i \in 1..Len(files) :
                   /\ PackIsFront(SplitDash(files[i]), FileType(service))
                   /\ PackIndexRaises(files, SplitDash(files[i]), service)}
        stop == IF bad = {} THEN Len(files)
                ELSE (CHOOSE i \in bad : \A j \in bad : i <= j) - 1
    IN  [raised |-> bad # {},
         copies |-> CopiesUpTo(files, stop, service),
         logged |-> SelectSeq(SubSeq(files, 1, stop),
                        LAMBDA f : /\ PackIsFront(SplitDash(f), FileType(service))
                                   /\ PackDropped(files, SplitDash(f), service))]

\* the files of the (cleared) staging folder after the copyfile calls: a
\* later copy to the same name replaces the earlier one
Staged(ops) ==
    {[dst |-> ops[i].dst, src |-> ops[i].src, front |-> ops[i].front] :
        i \in {k \in 1..Len(ops) : \A j \in (k + 1)..Len(ops) : ops[j].dst # ops[k].dst}}

\* the entries _collect_pdf_images appends for one filename of the folder
PoolEntries(files, filename, key) ==
    LET parts == SplitDash(filename)
        own   == InListing(files, PackBackName(parts, Png))
        type  == IF own THEN "custom"
                 ELSE IF parts[3] = <<"p">> THEN "player"
                 ELSE IF parts[3] = <<"e">> THEN "encounter"
                 ELSE ""
        back  == IF own THEN InputPath(PackBackName(parts, Png))
                 ELSE IF parts[3] = <<"p">> THEN BackImage("playerBackOfficial.png")
                 ELSE BackImage("encounterBackOfficial.png")
    IN  IF parts[Len(parts)] # <<"1", ".">> \o Png \/ type # key THEN <<>>
        ELSE [c \in 1..(IF parts[2] = <<"p">> THEN 3 ELSE 1) |->
                 <<InputPath(filename), back>>]

RECURSIVE PoolBucket(_, _, _)
PoolBucket(files, key, n) ==
    IF n = 0 THEN <<>>
    ELSE PoolBucket(files, key, n - 1) \o PoolEntries(files, files[n], key)

\* parts[2] or parts[1] is out of range for this front image of the index
PoolIndexRaises(files, parts) ==
    IF InListing(files, PackBackName(parts, Png))
    THEN Len(parts) < 2
    ELSE Len(parts) < 3

\* _collect_pdf_images(input_path): what it returns, the filenames it logs
\* as missing their back, and whether it raises.  Over a missing folder
\* os.walk yields nothing and `return images` raises UnboundLocalError; a
\* front image without the token the loop indexes raises IndexError, which
\* ends the loop at that filename and returns nothing.
CollectPoolImages(dir) ==
    LET files == dir.files
        bad   == {i \in 1..Len(files) :
                     /\ SplitDash(files[i])[Len(SplitDash(files[i]))] = <<"1", ".">> \o Png
                     /\ PoolIndexRaises(files, SplitDash(files[i]))}
        stop  == IF bad = {} THEN Len(files)
                 ELSE (CHOOSE i \in bad : \A j \in bad : i <= j) - 1
        logged == SelectSeq(SubSeq(files, 1, stop),
                      LAMBDA f : /\ SplitDash(f)[Len(SplitDash(f))] = <<"1", ".">> \o Png
                                 /\ ~InListing(files, PackBackName(SplitDash(f), Png))
                                 /\ SplitDash(f)[3] \notin {<<"p">>, <<"e">>})
    IN  IF ~dir.exists THEN [raised |-> TRUE, images |-> NoImages, logged |-> <<>>]
        ELSE IF files = <<>> THEN [raised |-> FALSE, images |-> NoImages, logged |-> <<>>]
        ELSE IF bad # {} THEN [raised |-> TRUE, images |-> NoImages, logged |-> logged]
        ELSE [raised |-> FALSE,
              images |-> [empty     |-> FALSE,
                          player    |-> PoolBucket(files, "player", Len(files)),
                          encounter |-> PoolBucket(files, "encounter", Len(files)),
                          custom    |-> PoolBucket(files, "custom", Len(files))],
              logged |-> logged]

\* 36-character card ids
PackGuid(c) ==
    Chars(c, 8) \o <<"-">> \o Chars(c, 4) \o <<"-">> \o Chars(c, 4) \o <<"-">>
    \o Chars(c, 4) \o <<"-">> \o Chars(c, 12)

\* the cards of the model: number, copies marker, back marker, title, id
\* character, and whether the card has a back image of its own.  Cards 2 and
\* 3 have the same number and title.
PoolCards ==
    << [num |-> "2", copies |-> "e", role |-> "p", title |-> "H", id |-> "b", own |-> FALSE],
       [num |-> "3", copies |-> "p", role |-> "e", title |-> "Q", id |-> "c", own |-> FALSE],
       [num |-> "3", copies |-> "p", role |-> "e", title |-> "Q", id |-> "i", own |-> TRUE],
       [num |-> "6", copies |-> "e", role |-> "c", title |-> "U", id |-> "g", own |-> FALSE] >>

\* the name the renderer gives an image of the card
CardFile(card, side, ft) ==
    <<card.num, "-", card.copies, "-", card.role, "-", card.title, "-">>
    \o PackGuid(card.id) \o <<"-", side, ".">> \o ft

\* the files of the cards at the positions idxs
PoolFiles(idxs, ft) ==
    {CardFile(PoolCards[n], "1", ft) : n \in idxs}
    \cup {CardFile(PoolCards[n], "2", ft) : n \in {k \in idxs : PoolCards[k].own}}

\* a front image that is not of a card: a name of two tokens, without a
\* back image of its own
ShortFront(ft) == <<"X", "-", "1", ".">> \o ft

\* the folder is missing, or it holds the images of some of the cards, with
\* or without the front image that is not of a card; os.walk lists them in
\* the order of the directory entries, which is any order
InitPack ==
    /\ packService \in {"mpc", "dtc"}
    /\ \/ packDir = [exists |-> FALSE, files |-> <<>>]
       \/ \E idxs \in SUBSET (1..Len(PoolCards)),
             short \in SUBSET {ShortFront(FileType(packService))} :
              \E listing \in Listings(PoolFiles(idxs, FileType(packService)) \cup short) :
                  packDir = [exists |-> TRUE, files |-> listing]
    /\ packIndex = [done |-> FALSE, raised |-> FALSE, images |-> NoImages]
    /\ packCopies = <<>> /\ packStaged = {} /\ packResult = ""
    /\ packLog = [index |-> <<>>, staging |-> <<>>]

\* _collect_pdf_images(input_path) on the folder: it returns or raises
CollectPool ==
    /\ ~packIndex.done /\ ~packIndex.raised
    /\ LET r == CollectPoolImages(packDir) IN
       /\ packIndex' = [done |-> ~r.raised, raised |-> r.raised, images |-> r.images]
       /\ packLog' = [packLog EXCEPT !.index = r.logged]
    /\ UNCHANGED <<packDir, packService, packCopies, packStaged, packResult>>

\* _prepare_printing_images(input_path, output_path, service)
PreparePrintingImages ==
    /\ packResult = ""
    /\ LET r == PreparePrintingOps(packDir.files, packService) IN
       /\ packCopies' = r.copies
       /\ packStaged' = Staged(r.copies)
       /\ packResult' = IF r.raised THEN "raised" ELSE "done"
       /\ packLog' = [packLog EXCEPT !.staging = r.logged]
    /\ UNCHANGED <<packDir, packService, packIndex>>

NextPack ==
    \/ CollectPool /\ UNCHANGED <<pipeVars, canonVars, clearVars, pdfVars, deckVars, stageVars, runsVars, rehashVars, artVars, encVars>>
    \/ PreparePrintingImages /\ UNCHANGED <<pipeVars, canonVars, clearVars, pdfVars, deckVars, stageVars, runsVars, rehashVars, artVars, encVars>>

\* an image folder and a service, everything else at rest
PackStart == InitPipe /\ IdleCanon /\ IdleClear /\ IdlePdf /\ InitPack /\ IdleDeck /\ IdleStage /\ IdleRuns /\ IdleRehash /\ IdleArt /\ IdleEnc

SpecPack == PackStart /\ [][NextPack]_vars

(***************************************************************************)
(* Properties of the image index and of the staged files (SpecPack),       *)
(* stated on the cards whose images the folder holds.                      *)
(***************************************************************************)
PresentCards ==
    {n \in 1..Len(PoolCards) :
        InListing(packDir.files, CardFile(PoolCards[n], "1", FileType(packService)))}

CardFront(n)   == InputPath(CardFile(PoolCards[n], "1", FileType(packService)))
CardOwnBack(n) == InputPath(CardFile(PoolCards[n], "2", FileType(packService)))

\* the card has a back of its own or a player or encounter role marker
HasBack(n) == PoolCards[n].own \/ PoolCards[n].role \in {"p", "e"}

\* the bucket and the back the index is to give the card
ExpectedBucket(n) ==
    IF PoolCards[n].own THEN "custom"
    ELSE IF PoolCards[n].role = "p" THEN "player" ELSE "encounter"

ExpectedIndexBack(n) ==
    IF PoolCards[n].own THEN CardOwnBack(n)
    ELSE IF PoolCards[n].role = "p" THEN BackImage("playerBackOfficial.png")
    ELSE BackImage("encounterBackOfficial.png")

\* the back the packaging stage is to copy for the card
ExpectedStagedBack(n) ==
    IF PoolCards[n].own THEN CardOwnBack(n)
    ELSE IF PoolCards[n].role = "p"
    THEN BackImage(IF packService = "mpc" THEN "playerBackUnofficialMPC.png"
                   ELSE "playerBackOfficialDTC.jpg")
    ELSE BackImage(IF packService = "mpc" THEN "encounterBackUnofficialMPC.png"
                   ELSE "encounterBackOfficialDTC.jpg")

BucketKeys == {"player", "encounter", "custom"}

\* the positions of packCopies at which the front image of card n is copied
FrontCopies(n) == {i \in 1..Len(packCopies) : packCopies[i].src = CardFront(n)}

\* C13: a front image with a sibling -2 file is paired with that file, in
\* the custom bucket; without one, a player role marker gives the official
\* player back and an encounter role marker the official encounter back,
\* in the index and in the packaging stage alike.
C13_BackResolution ==
    /\ (packIndex.done /\ packService = "mpc") =>
           \A n \in PresentCards : HasBack(n) =>
               /\ \E i \in 1..Len(packIndex.images[ExpectedBucket(n)]) :
                      packIndex.images[ExpectedBucket(n)][i]
                          = <<CardFront(n), ExpectedIndexBack(n)>>
               /\ \A k \in BucketKeys : \A i \in 1..Len(packIndex.images[k]) :
                      packIndex.images[k][i][1] = CardFront(n) =>
                          /\ k = ExpectedBucket(n)
                          /\ packIndex.images[k][i][2] = ExpectedIndexBack(n)
    /\ packResult = "done" =>
           \A n \in PresentCards : HasBack(n) =>
               /\ FrontCopies(n) # {}
               /\ \A i \in FrontCopies(n) :
                      /\ i < Len(packCopies)
                      /\ packCopies[i + 1].src = ExpectedStagedBack(n)

\* the folder of a pair of -1 and -2 files and of a player card without a sibling,
\* listed first: the player card gets the official player back
C13_Witness ==
    /\ packService = "mpc" /\ packIndex.done /\ packResult = "done"
    /\ PresentCards = {1, 3}
    /\ packDir.files[1] = CardFront(1).name
    /\ packIndex.images.custom = [c \in 1..3 |-> <<CardFront(3), CardOwnBack(3)>>]
    /\ packIndex.images.player
           = << <<CardFront(1), BackImage("playerBackOfficial.png")>> >>
    /\ packCopies[2].src = BackImage("playerBackUnofficialMPC.png")

\* the back image exists: it is an official back or a file of the folder
BackExists(path) ==
    /\ path # NoBack
    /\ path.dir = "imagesBack" \/ (path.dir = "input" /\ InListing(packDir.files, path.name))

\* the front images of the folder that have no sibling -2 file and whose
\* role marker is neither player nor encounter: those of the cards without
\* a back, and the front image that is not of a card, which has no marker
NoBackFronts ==
    {CardFront(n).name : n \in {k \in PresentCards : ~HasBack(k)}}
    \cup {f \in {ShortFront(FileType(packService))} : InListing(packDir.files, f)}

\* where a function has returned: every pair of the index and every front
\* the packaging stage copies has a back image; every front of NoBackFronts
\* is logged as an error and appears in neither; the other cards of the
\* folder are all indexed and copied.  (The index reads .png names, the
\* files of the 'mpc' service.)
DropsNoBackFronts ==
    /\ packIndex.done =>
           /\ \A k \in BucketKeys : \A i \in 1..Len(packIndex.images[k]) :
                  /\ BackExists(packIndex.images[k][i][2])
                  /\ packIndex.images[k][i][1].name \notin NoBackFronts
           /\ packService = "mpc" =>
                  /\ \A f \in NoBackFronts : InListing(packLog.index, f)
                  /\ \A i \in 1..Len(packLog.index) : packLog.index[i] \in NoBackFronts
                  /\ \A n \in PresentCards : HasBack(n) =>
                         \E i \in 1..Len(packIndex.images[ExpectedBucket(n)]) :
                             packIndex.images[ExpectedBucket(n)][i][1] = CardFront(n)
    /\ packResult = "done" =>
           /\ Len(packCopies) % 2 = 0
           /\ \A i \in 1..Len(packCopies) :
                  IF i % 2 = 1
                  THEN /\ packCopies[i].src = InputPath(packCopies[i].front)
                       /\ packCopies[i + 1].front = packCopies[i].front
                  ELSE BackExists(packCopies[i].src)
           /\ \A f \in NoBackFronts :
                  /\ InListing(packLog.staging, f)
                  /\ \A i \in 1..Len(packCopies) : packCopies[i].front # f
           /\ \A i \in 1..Len(packLog.staging) : packLog.staging[i] \in NoBackFronts
           /\ \A n \in PresentCards : HasBack(n) => FrontCopies(n) # {}

\* C14 as stated: every pair of the index and every front the packaging
\* stage copies has a back image; a front without a sibling whose role
\* marker is neither player nor encounter is logged as an error and appears
\* in neither, and processing continues with the remaining files: neither
\* function raises over a folder that exists, and the other cards of the
\* folder are all indexed and copied.
C14_NoMissingBack ==
    /\ packDir.exists => ~packIndex.raised
    /\ packResult # "raised"
    /\ DropsNoBackFronts

\* the front image without role marker is listed before the front of a
\* player card: both functions have raised at it, nothing is logged, and
\* the player card is neither indexed nor copied
C14_Witness ==
    /\ packService = "mpc"
    /\ PresentCards = {1}
    /\ packDir.files = <<ShortFront(Png), CardFront(1).name>>
    /\ packIndex.raised /\ packResult = "raised"
    /\ packLog = [index |-> <<>>, staging |-> <<>>]
    /\ packCopies = <<>>

\* C14 for the folders over which the functions return: the fronts without
\* a back are logged and left out, every other card is indexed and copied;
\* a function raises only over a missing folder (the index) or at a front
\* image with fewer than three tokens and no sibling.
C14_DropsWhenItReturns ==
    /\ DropsNoBackFronts
    /\ packIndex.raised =>
           \/ ~packDir.exists
           \/ packService = "mpc" /\ InListing(packDir.files, ShortFront(Png))
    /\ packResult = "raised" =>
           InListing(packDir.files, ShortFront(FileType(packService)))

\* the card without a resolvable back is listed first and is logged by both
\* functions; the player card listed after it is indexed and copied
C14_DropsWitness ==
    /\ packService = "mpc" /\ packIndex.done /\ packResult = "done"
    /\ PresentCards = {1, 4}
    /\ packDir.files[1] = CardFront(4).name
    /\ packLog = [index |-> <<CardFront(4).name>>, staging |-> <<CardFront(4).name>>]
    /\ Len(packIndex.images.player) = 1
    /\ Len(packCopies) = 2

\* the positions of packCopies at which a back is copied for card n
BackCopies(n) ==
    {i \in 1..Len(packCopies) :
        packCopies[i].front = CardFront(n).name /\ packCopies[i].src # CardFront(n)}

\* the staged name of copy j of card n: the id and the markers e and p are
\* gone, the copies marker is the number of the copy
NumberedName(n, j, side) ==
    <<PoolCards[n].num, "-", ToString(j), "-">>
    \o (IF PoolCards[n].role \in {"e", "p"} THEN <<>> ELSE <<PoolCards[n].role, "-">>)
    \o <<PoolCards[n].title, "-", side, ".">> \o FileType(packService)

\* card n is written as count fronts and count backs under distinct names,
\* each front followed by its back; several copies are numbered from 1
ReplicatedAs(n, count) ==
    /\ Cardinality(FrontCopies(n)) = count
    /\ Cardinality(BackCopies(n)) = count
    /\ Cardinality({packCopies[i].dst : i \in FrontCopies(n)}) = count
    /\ Cardinality({packCopies[i].dst : i \in BackCopies(n)}) = count
    /\ \A i \in FrontCopies(n) : packCopies[i + 1].src = ExpectedStagedBack(n)
    /\ count > 1 =>
           /\ {packCopies[i].dst : i \in FrontCopies(n)}
                  = {OutputPath(NumberedName(n, j, "1")) : j \in 1..count}
           /\ {packCopies[i].dst : i \in BackCopies(n)}
                  = {OutputPath(NumberedName(n, j, "2")) : j \in 1..count}
           /\ \A i \in FrontCopies(n) : \E j \in 1..count :
                  /\ packCopies[i].dst = OutputPath(NumberedName(n, j, "1"))
                  /\ packCopies[i + 1].dst = OutputPath(NumberedName(n, j, "2"))

\* C15 as stated: a card whose back role is player is written as 3 numbered
\* fronts and 3 matching backs, a card of another role as one of each.
C15_ReplicationByRole ==
    packResult = "done" =>
        \A n \in PresentCards : HasBack(n) =>
            ReplicatedAs(n, IF PoolCards[n].role = "p" THEN 3 ELSE 1)

\* C15 amended: a card whose copies marker (the second token of its name)
\* is p is written as 3 numbered fronts and 3 matching backs, any other
\* card as one of each, whatever its back role.
C15_ReplicationByCopiesMarker ==
    packResult = "done" =>
        \A n \in PresentCards : HasBack(n) =>
            ReplicatedAs(n, IF PoolCards[n].copies = "p" THEN 3 ELSE 1)

\* a hero (one copy, player back) beside a card with three copies and the
\* encounter back
C15_Witness ==
    /\ packResult = "done"
    /\ PresentCards = {1, 2}
    /\ Cardinality(FrontCopies(1)) = 1 /\ Cardinality(FrontCopies(2)) = 3
    /\ Cardinality(packStaged) = 8

\* C20: no staged file is written for two different source cards.
C20_NoNameCollision ==
    packResult = "done" =>
        \A i, j \in 1..Len(packCopies) :
            packCopies[i].dst = packCopies[j].dst =>
                packCopies[i].front = packCopies[j].front

(***************************************************************************)
(* SpecDeck: _prepare_dtc_printing_archive(input_path, obj) and            *)
(* _deck_name(current_cnt, total_cnt).                                     *)
(*                                                                         *)
(* A filename is a sequence of one-character strings, as in SpecPack.  An  *)
(* archive name '<deck>front/<filename>' is the record of its three parts; *)
(* the deck prefix 'deck<d>/' is the number d and the empty prefix is 0.   *)
(***************************************************************************)

MaxTotal == 252  \* cards in the staging folder: 1..MaxTotal

DeckThreshold == 130  \* total_cnt > 130
DeckSize      == 120  \* (current_cnt - 1) / 120 and (total_cnt - 10) / 120
DeckSlack     == 10   \* total_cnt - 10

\* ord(c) of the characters of a staged filename
Ord(c) ==
    CASE c = "-" -> 45 [] c = "." -> 46
      [] c = "0" -> 48 [] c = "1" -> 49 [] c = "2" -> 50 [] c = "3" -> 51
      [] c = "4" -> 52 [] c = "5" -> 53 [] c = "6" -> 54 [] c = "7" -> 55
      [] c = "8" -> 56 [] c = "9" -> 57
      [] c = "g" -> 103 [] c = "j" -> 106 [] c = "p" -> 112

\* a < b for two Python strings, from position i on
RECURSIVE LessFrom(_, _, _)
LessFrom(a, b, i) ==
    IF i > Len(a) THEN i <= Len(b)
    ELSE IF i > Len(b) THEN FALSE
    ELSE IF a[i] = b[i] THEN LessFrom(a, b, i + 1)
    ELSE Ord(a[i]) < Ord(b[i])

StrLess(a, b) == LessFrom(a, b, 1)

\* sorted(filenames)
Sorted(filenames) == SortSeq(filenames, StrLess)

\* f.endswith(suffix)
EndsWith(f, suffix) ==
    Len(f) >= Len(suffix)
    /\ SubSeq(f, Len(f) - Len(suffix) + 1, Len(f)) = suffix

FrontSuffix == <<"-", "1", ".", "j", "p", "g">>
BackSuffix  == <<"-", "2", ".", "j", "p", "g">>

IsDeckFront(f) == EndsWith(f, FrontSuffix)
IsDeckBack(f)  == EndsWith(f, BackSuffix)

\* total_cnt = len(filenames) / 2 is a float: a whole number or a whole
\* number and a half.  It is held by len(filenames), the number of halves.

\* variants of _deck_name with another clamp
DeckNameNoClamp(current_cnt, halves) ==
    IF halves > 2 * DeckThreshold
    THEN (current_cnt - 1) \div DeckSize + 1
    ELSE 0

DeckNameClampNine(current_cnt, halves) ==
    IF halves > 2 * DeckThreshold
    THEN Min((current_cnt - 1) \div DeckSize + 1,
             CeilDiv(halves - 2 * (DeckSlack - 1), 2 * DeckSize))
    ELSE 0

DeckNameClampTwenty(current_cnt, halves) ==
    IF halves > 2 * DeckThreshold
    THEN Min((current_cnt - 1) \div DeckSize + 1,
             CeilDiv(halves - 4 * DeckSlack, 2 * DeckSize))
    ELSE 0

\* _deck_name(current_cnt, halves / 2): the number d of 'deck<d>/', 0 for
\* ''.  halves / 2 > 130 is halves > 260, and
\* ceil((halves / 2 - 10) / 120) is ceil((halves - 20) / 240).
DeckNameOfHalves(current_cnt, halves) ==
    IF halves > 2 * DeckThreshold
    THEN Min((current_cnt - 1) \div DeckSize + 1,
             CeilDiv(halves - 2 * DeckSlack, 2 * DeckSize))
    ELSE 0

\* _deck_name(current_cnt, total_cnt) for a whole total_cnt
DeckName(current_cnt, total_cnt) == DeckNameOfHalves(current_cnt, 2 * total_cnt)

\* the archive name '<deck><side>/<filename>'
ArcName(deck, side, filename) ==
    [deck |-> deck, side |-> side, name |-> filename]

\* the obj.write call for one filename, with front_cnt and back_cnt the
\* counters before it
WriteOne(filename, front_cnt, back_cnt, halves) ==
    IF IsDeckFront(filename)
    THEN <<ArcName(DeckNameOfHalves(front_cnt + 1, halves), "front", filename)>>
    ELSE IF IsDeckBack(filename)
    THEN <<ArcName(DeckNameOfHalves(back_cnt + 1, halves), "back", filename)>>
    ELSE <<>>

\* the number of archive names of one side in a sequence of them
CountSide(arcs, side) == Len(SelectSeq(arcs, LAMBDA e : e.side = side))

\* the obj.write calls of the loop over filenames[lo..hi], with front_cnt
\* and back_cnt the counters before position lo.  The loop runs from the
\* first filename to the last; it is evaluated here half by half, the
\* counters after the first half being those before the second.
RECURSIVE ArchiveRange(_, _, _, _, _, _)
ArchiveRange(filenames, lo, hi, front_cnt, back_cnt, halves) ==
    IF lo > hi THEN <<>>
    ELSE IF lo = hi
    THEN WriteOne(filenames[lo], front_cnt, back_cnt, halves)
    ELSE LET mid  == (lo + hi) \div 2
             left == ArchiveRange(filenames, lo, mid, front_cnt, back_cnt,
                                  halves)
         IN  left \o ArchiveRange(filenames, mid + 1, hi,
                                  front_cnt + CountSide(left, "front"),
                                  back_cnt + CountSide(left, "back"),
                                  halves)

\* the obj.write calls of _prepare_dtc_printing_archive for a folder
\* listing; total_cnt = len(filenames) / 2 is passed on as len(filenames)
PrepareDtcArchive(listing) ==
    LET filenames == Sorted(SelectSeq(listing,
                         LAMBDA f : IsDeckFront(f) \/ IsDeckBack(f)))
    IN  ArchiveRange(filenames, 1, Len(filenames), 0, 0, Len(filenames))

\* ---- the staging folders under study ----

DigitChars == <<"0", "1", "2", "3", "4", "5", "6", "7", "8", "9">>

\* the three-digit number k as a string
Pad3(k) ==
    <<DigitChars[((k \div 100) % 10) + 1], DigitChars[((k \div 10) % 10) + 1],
      DigitChars[(k % 10) + 1]>>

\* the base name of card k of a folder.  With twin > 0 the card after card
\* twin carries the name of card twin followed by '-10' (a second card of
\* the same number whose title goes on).
DeckBase(k, twin) ==
    IF twin > 0 /\ k = twin + 1 THEN Pad3(twin) \o <<"-", "1", "0">>
    ELSE Pad3(k)

\* the listing of a staging folder of n cards.  _prepare_printing_images
\* copies every front with its back, so that the folder holds both; the
\* names are sorted before they are used, here they are listed the last
\* card first and backs before fronts
DeckListing(n, twin) ==
    [i \in 1..(2 * n) |->
        DeckBase(n - (i - 1) \div 2, twin)
            \o (IF i % 2 = 1 THEN BackSuffix ELSE FrontSuffix)]

\* the cards that have a twin in the folders under study: none, or the
\* last card of a sub-archive
Twins(n) == {0} \cup {t \in {DeckSize, 2 * DeckSize} : t < n}

InitDeck ==
    /\ \E n \in 1..MaxTotal : \E twin \in Twins(n) :
           deckFiles = DeckListing(n, twin)
    /\ deckArchive = <<>>
    /\ deckDone = FALSE

\* _prepare_dtc_printing_archive(input_path, obj)
PrepareDtcPrintingArchive ==
    /\ ~deckDone
    /\ deckArchive' = PrepareDtcArchive(deckFiles)
    /\ deckDone' = TRUE
    /\ UNCHANGED deckFiles

NextDeck ==
    PrepareDtcPrintingArchive
        /\ UNCHANGED <<pipeVars, canonVars, clearVars, pdfVars, packVars, stageVars, runsVars, rehashVars, artVars, encVars>>

\* a staging folder, everything else at rest
DeckStart == InitPipe /\ IdleCanon /\ IdleClear /\ IdlePdf /\ IdlePack /\ InitDeck /\ IdleStage /\ IdleRuns /\ IdleRehash /\ IdleArt /\ IdleEnc

SpecDeck == DeckStart /\ [][NextDeck]_vars

(***************************************************************************)
(* Properties of SpecDeck                                                  *)
(***************************************************************************)

\* the archive names written for fronts and for backs, in writing order:
\* position i of WrittenFronts is the front card of 1-based index i
WrittenFronts == SelectSeq(deckArchive, LAMBDA e : e.side = "front")
WrittenBacks  == SelectSeq(deckArchive, LAMBDA e : e.side = "back")

\* the total front-card count
FrontTotal == Len(WrittenFronts)

\* the number of archive names of a sequence under sub-archive d
CountInDeck(arcs, d) == Len(SelectSeq(arcs, LAMBDA e : e.deck = d))

\* the numbers of the sub-archives written, and the highest of them
DecksWritten == {deckArchive[i].deck : i \in 1..Len(deckArchive)}
HighestDeck == CHOOSE d \in DecksWritten : \A e \in DecksWritten : e <= d

\* the sub-archive floor((i-1)/120)+1 of index i, and the number of cards
\* the last of these sub-archives would hold for a total of n
PlainDeck(i) == (i - 1) \div DeckSize + 1
PlainLastSize(n) == n - DeckSize * (PlainDeck(n) - 1)

\* the sub-archive of index i of n by the split rule, the last sub-archive
\* being merged into the one before it when merged holds
RuleDeck(i, n, merged) ==
    IF n <= DeckThreshold THEN 0
    ELSE IF merged /\ PlainDeck(i) = PlainDeck(n) THEN PlainDeck(i) - 1
    ELSE PlainDeck(i)

\* C16 as stated: with 130 or fewer front cards no prefix is used; with more,
\* the front card of index i is under sub-archive floor((i-1)/120)+1, the
\* last sub-archive being merged into the previous one exactly when it would
\* hold fewer than 10 cards.
C16_MergeBelowTen ==
    deckDone =>
        \A i \in 1..FrontTotal :
            WrittenFronts[i].deck =
                RuleDeck(i, FrontTotal, PlainLastSize(FrontTotal) < DeckSlack)

\* C16, amended: the last sub-archive is merged into the previous one
\* exactly when it would hold 10 cards or fewer.
C16_MergeUpToTen ==
    deckDone =>
        \A i \in 1..FrontTotal :
            WrittenFronts[i].deck =
                RuleDeck(i, FrontTotal, PlainLastSize(FrontTotal) <= DeckSlack)

\* 250 front cards were written: the third sub-archive would hold exactly 10
C16_Witness ==
    /\ deckDone
    /\ FrontTotal = 2 * DeckSize + DeckSlack
    /\ WrittenFronts[FrontTotal].deck = 2

\* C17 as stated: for a total above 130, every numbered sub-archive holds at
\* most 120 front cards and at most 120 back cards.
C17_AtMostDeckSize ==
    (deckDone /\ FrontTotal > DeckThreshold) =>
        \A d \in DecksWritten :
            /\ CountInDeck(WrittenFronts, d) <= DeckSize
            /\ CountInDeck(WrittenBacks, d) <= DeckSize

\* C17, amended: for a total above 130, every numbered sub-archive but the
\* highest holds exactly 120 front cards and 120 back cards, and the highest
\* holds at most 130 of each.
C17_AtMostDeckSizePlusSlack ==
    (deckDone /\ FrontTotal > DeckThreshold) =>
        \A d \in DecksWritten :
            /\ d >= 1
            /\ CountInDeck(WrittenFronts, d) = CountInDeck(WrittenBacks, d)
            /\ IF d = HighestDeck
               THEN CountInDeck(WrittenFronts, d) <= DeckSize + DeckSlack
               ELSE CountInDeck(WrittenFronts, d) = DeckSize

\* a split archive was written whose highest sub-archive took the cards of
\* the one merged into it
C17_Witness ==
    /\ deckDone
    /\ FrontTotal > DeckThreshold
    /\ CountInDeck(WrittenFronts, HighestDeck) > DeckSize
    /\ CountInDeck(WrittenBacks, HighestDeck) > DeckSize

\* C18: for a total above 130, the highest-numbered sub-archive never holds
\* fewer than 10 front cards.
C18_HighestDeckNotSmall ==
    (deckDone /\ FrontTotal > DeckThreshold) =>
        CountInDeck(WrittenFronts, HighestDeck) >= DeckSlack

\* a split archive of three sub-archives was written, the third just large
\* enough to stay on its own
C18_Witness ==
    /\ deckDone
    /\ HighestDeck = 3
    /\ CountInDeck(WrittenFronts, HighestDeck) = DeckSlack + 1

\* the archive name of the back of the card whose front has archive name e,
\* under the same sub-archive
OwnBackBeside(e) ==
    ArcName(e.deck, "back",
            SubSeq(e.name, 1, Len(e.name) - Len(FrontSuffix)) \o BackSuffix)

\* C19 as stated: in a split archive the front of every card and its own back
\* (same base name, -1 and -2) are written under the same sub-archive, for
\* every set of staged filenames and every total.
C19_PairingSurvivesSplit ==
    deckDone =>
        LET written == {deckArchive[i] : i \in 1..Len(deckArchive)}
        IN  \A e \in written : e.side = "front" => OwnBackBeside(e) \in written

(***************************************************************************)
(* SpecStage: one call of a stage function that stages files in a          *)
(* temporary folder or packs an image folder:                              *)
(* generate_png300_db, generate_png300_pdf, generate_png800_bleedmpc,      *)
(* generate_jpg300_bleeddtc, generate_db, generate_octgn, generate_mpc,    *)
(* generate_dtc.                                                           *)
(*                                                                         *)
(* A stage is the sequence of its statements; a statement that raises ends *)
(* it.  subprocess.run(cmd, ..., check=True) raises CalledProcessError on  *)
(* a non-zero exit code.  The k-th invocation of the external tool in the  *)
(* call exits with stageExits[k].                                          *)
(***************************************************************************)

\* the statements that invoke the external tool
GimpScripts ==
    {"python-prepare-db-output-folder", "python-prepare-pdf-back-folder",
     "python-prepare-pdf-front-folder", "python-prepare-makeplayingcards-folder",
     "python-prepare-drivethrucards-folder"}
ToolSteps == GimpScripts \cup {"_make_cmyk"}

\* a variant of subprocess.run without check=True
ToolRaisesNever(exit) == FALSE

\* subprocess.run(cmd, capture_output=True, shell=True, check=True) raises
ToolRaises(exit) == exit # 0

\* the statements of a render stage up to its first tool invocation
RenderHead(script) ==
    <<"_create_folder(output_path)", "_clear_modified_images",
      "_create_folder(temp_path)", "_clear_folder(temp_path)", "extract",
      script>>

\* generate_png300_db, generate_png800_bleedmpc, generate_jpg300_bleeddtc
RenderProgram(script) == RenderHead(script) \o <<"_delete_folder(temp_path)">>

\* generate_png300_pdf: the backs, then the fronts
PdfRenderProgram ==
    RenderHead("python-prepare-pdf-back-folder")
    \o <<"_clear_folder(temp_path)", "extract",
         "python-prepare-pdf-front-folder", "_delete_folder(temp_path)">>

\* for _, _, filenames in os.walk(input_path): if not filenames
PoolIsEmpty(pool) == pool.exists /\ pool.files = <<>>

\* the archive statements of generate_mpc and generate_dtc for conf['outputs']
ArchiveSteps(outputs, vendor) ==
    (IF vendor \o "_zip" \in outputs THEN <<"zipfile.ZipFile">> ELSE <<>>)
    \o (IF vendor \o "_7z" \in outputs THEN <<"py7zr.SevenZipFile">> ELSE <<>>)

\* generate_mpc
MpcProgram(pool, outputs) ==
    IF PoolIsEmpty(pool) THEN <<"logging.error">>
    ELSE <<"_create_folder(output_path)", "_create_folder(temp_path)",
           "_clear_folder(temp_path)", "_prepare_printing_images",
           "_make_unique_png">>
         \o ArchiveSteps(outputs, "makeplayingcards")
         \o <<"_delete_folder(temp_path)">>

\* generate_dtc
DtcProgram(pool, outputs) ==
    IF PoolIsEmpty(pool) THEN <<"logging.error">>
    ELSE <<"_create_folder(output_path)", "_create_folder(temp_path)",
           "_clear_folder(temp_path)", "_prepare_printing_images",
           "_make_cmyk">>
         \o ArchiveSteps(outputs, "drivethrucards")
         \o <<"_delete_folder(temp_path)">>

\* generate_db: the body of the os.walk loop runs once for a folder that
\* exists and not at all for one that does not
DbProgram(pool) ==
    IF ~pool.exists THEN <<>>
    ELSE IF pool.files = <<>> THEN <<"logging.error">>
    ELSE <<"_create_folder(output_path)", "_clear_folder(output_path)",
           "copy images">>

\* generate_octgn
OctgnProgram(pool) ==
    IF ~pool.exists THEN <<>>
    ELSE IF pool.files = <<>> THEN <<"logging.error">>
    ELSE <<"_create_folder(output_path)", "zipfile.ZipFile">>

\* the number of tool invocations among the first n statements
RECURSIVE ToolCalls(_, _)
ToolCalls(program, n) ==
    IF n = 0 THEN 0
    ELSE ToolCalls(program, n - 1) + (IF program[n] \in ToolSteps THEN 1 ELSE 0)

\* statement n of the program raises: the tool exits with a non-zero code,
\* or _prepare_printing_images meets a name it cannot index
StepRaises(program, n, pool, service, exits) ==
    \/ /\ program[n] \in ToolSteps
       /\ ToolRaises(exits[ToolCalls(program, n)])
    \/ /\ program[n] = "_prepare_printing_images"
       /\ PreparePrintingOps(pool.files, service).raised

\* the statements executed: all of them, or those up to the first that raises
Executed(program, pool, service, exits) ==
    LET bad == {n \in 1..Len(program) : StepRaises(program, n, pool, service, exits)}
    IN  IF bad = {} THEN [steps |-> program, raised |-> FALSE]
        ELSE [steps  |-> SubSeq(program, 1, CHOOSE n \in bad : \A m \in bad : n <= m),
              raised |-> TRUE]

\* filename.split('.')[-1] == 'png'
IsPng(filename) == LastPart(filename) = Png

\* the temporary folder after one statement
TempAfter(temp, step, pool, service) ==
    IF step = "_create_folder(temp_path)" THEN [temp EXCEPT !.exists = TRUE]
    ELSE IF step = "_clear_folder(temp_path)" THEN [temp EXCEPT !.files = {}]
    ELSE IF step = "extract" THEN [temp EXCEPT !.files = @ \cup {"extracted"}]
    ELSE IF step = "_prepare_printing_images"
    THEN [temp EXCEPT !.files =
              @ \cup {c.dst : c \in Staged(PreparePrintingOps(pool.files, service).copies)}]
    ELSE IF step = "_delete_folder(temp_path)" THEN [exists |-> FALSE, files |-> {}]
    ELSE temp

\* the output artifacts after one statement of the stage
OutAfter(out, step, stage, pool) ==
    IF step = "_create_folder(output_path)" /\ stage \notin
           {"generate_png300_db", "generate_png300_pdf",
            "generate_png800_bleedmpc", "generate_jpg300_bleeddtc"}
    THEN out \cup {"output folder"}
    ELSE IF step = "zipfile.ZipFile"
    THEN out \cup {IF stage = "generate_octgn" THEN "o8c" ELSE "zip"}
    ELSE IF step = "py7zr.SevenZipFile" THEN out \cup {"7z"}
    ELSE IF step = "copy images"
    THEN out \cup {"image" : i \in {k \in 1..Len(pool.files) : IsPng(pool.files[k])}}
    ELSE out

\* the folders after the first n executed statements
RECURSIVE RunSteps(_, _, _, _, _, _, _)
RunSteps(steps, n, temp, out, stage, pool, service) ==
    IF n = 0 THEN [temp |-> temp, out |-> out]
    ELSE LET before == RunSteps(steps, n - 1, temp, out, stage, pool, service)
         IN  [temp |-> TempAfter(before.temp, steps[n], pool, service),
              out  |-> OutAfter(before.out, steps[n], stage, pool)]

\* ---- the calls under study ----

\* a file the renderer did not write
OtherFile == <<"T", "h", "u", "m", "b", "s", ".", "d", "b">>

\* the image folders: missing, or a listing made of the front of a card as
\* png, the same as jpg, and a file that is no image
PoolListings ==
    { SelectSeq(<<CardFile(PoolCards[2], "1", Png), CardFile(PoolCards[2], "1", Jpg),
                  OtherFile>>,
                LAMBDA f : f \in keep) :
        keep \in SUBSET {CardFile(PoolCards[2], "1", Png),
                         CardFile(PoolCards[2], "1", Jpg), OtherFile} }

StagePools ==
    {[exists |-> FALSE, files |-> <<>>]}
    \cup {[exists |-> TRUE, files |-> l] : l \in PoolListings}

ArchiveOutputs ==
    {"makeplayingcards_zip", "makeplayingcards_7z",
     "drivethrucards_zip", "drivethrucards_7z"}

\* the temporary folder before the call: missing, empty, or with the files
\* an earlier call left
StageTemps ==
    {[exists |-> FALSE, files |-> {}], [exists |-> TRUE, files |-> {}],
     [exists |-> TRUE, files |-> {"left over"}]}

InitStage ==
    /\ stagePool \in StagePools
    /\ stageConf \in {{}, {"makeplayingcards_zip", "drivethrucards_zip"},
                      {"makeplayingcards_7z", "drivethrucards_7z"}, ArchiveOutputs}
    /\ stageExits \in [1..2 -> {0, 1}]
    /\ stageTemp \in StageTemps
    /\ stageName = "" /\ stageSteps = <<>> /\ stageOut = {} /\ stageResult = ""

\* one call of the stage function with the given statements
CallStage(stage, program, service) ==
    /\ stageName = ""
    /\ LET e == Executed(program, stagePool, service, stageExits)
           r == RunSteps(e.steps, Len(e.steps), stageTemp, {}, stage, stagePool, service)
       IN  /\ stageName' = stage
           /\ stageSteps' = e.steps
           /\ stageTemp' = r.temp
           /\ stageOut' = r.out
           /\ stageResult' = IF e.raised THEN "raised" ELSE "returned"
    /\ UNCHANGED <<stagePool, stageConf, stageExits>>

GeneratePng300Db ==
    CallStage("generate_png300_db",
              RenderProgram("python-prepare-db-output-folder"), "")

GeneratePng300Pdf == CallStage("generate_png300_pdf", PdfRenderProgram, "")

GeneratePng800BleedMpc ==
    CallStage("generate_png800_bleedmpc",
              RenderProgram("python-prepare-makeplayingcards-folder"), "")

GenerateJpg300BleedDtc ==
    CallStage("generate_jpg300_bleeddtc",
              RenderProgram("python-prepare-drivethrucards-folder"), "")

GenerateDb == CallStage("generate_db", DbProgram(stagePool), "")

GenerateOctgn == CallStage("generate_octgn", OctgnProgram(stagePool), "")

GenerateMpc == CallStage("generate_mpc", MpcProgram(stagePool, stageConf), "mpc")

GenerateDtc == CallStage("generate_dtc", DtcProgram(stagePool, stageConf), "dtc")

NextStage ==
    \/ GeneratePng300Db /\ UNCHANGED <<pipeVars, canonVars, clearVars, pdfVars, packVars, deckVars, runsVars, rehashVars, artVars, encVars>>
    \/ GeneratePng300Pdf /\ UNCHANGED <<pipeVars, canonVars, clearVars, pdfVars, packVars, deckVars, runsVars, rehashVars, artVars, encVars>>
    \/ GeneratePng800BleedMpc /\ UNCHANGED <<pipeVars, canonVars, clearVars, pdfVars, packVars, deckVars, runsVars, rehashVars, artVars, encVars>>
    \/ GenerateJpg300BleedDtc /\ UNCHANGED <<pipeVars, canonVars, clearVars, pdfVars, packVars, deckVars, runsVars, rehashVars, artVars, encVars>>
    \/ GenerateDb /\ UNCHANGED <<pipeVars, canonVars, clearVars, pdfVars, packVars, deckVars, runsVars, rehashVars, artVars, encVars>>
    \/ GenerateOctgn /\ UNCHANGED <<pipeVars, canonVars, clearVars, pdfVars, packVars, deckVars, runsVars, rehashVars, artVars, encVars>>
    \/ GenerateMpc /\ UNCHANGED <<pipeVars, canonVars, clearVars, pdfVars, packVars, deckVars, runsVars, rehashVars, artVars, encVars>>
    \/ GenerateDtc /\ UNCHANGED <<pipeVars, canonVars, clearVars, pdfVars, packVars, deckVars, runsVars, rehashVars, artVars, encVars>>

\* a stage about to be called, everything else at rest
StageStart ==
    InitPipe /\ IdleCanon /\ IdleClear /\ IdlePdf /\ IdlePack /\ IdleDeck /\ InitStage
    /\ IdleRuns /\ IdleRehash /\ IdleArt /\ IdleEnc

SpecStage == StageStart /\ [][NextStage]_vars

\* ---- properties of SpecStage ----

\* the stages that stage files in a temporary folder
TempStages ==
    {"generate_png300_db", "generate_png300_pdf", "generate_png800_bleedmpc",
     "generate_jpg300_bleeddtc", "generate_mpc", "generate_dtc"}

\* the stages that pack an image folder
ArchiveStages == {"generate_mpc", "generate_dtc", "generate_octgn", "generate_db"}

\* the exit codes of the tool invocations the stage made
ExitsSeen == {stageExits[k] : k \in 1..ToolCalls(stageSteps, Len(stageSteps))}

\* C21 as stated: the temporary folder a stage created no longer exists when
\* the stage has ended, whether it returned or raised.
C21_TempGoneWhenStageEnds ==
    (stageName \in TempStages /\ InListing(stageSteps, "_create_folder(temp_path)"))
        => ~stageTemp.exists

\* C22: every invocation point of the external tool is executed at most once
\* in a call; when an invocation exits with a non-zero code the stage raises,
\* that invocation is its last statement, and it has written no archive; a
\* stage that returned saw only zero exit codes.
C22_ToolFailureIsFatal ==
    /\ \A i, j \in 1..Len(stageSteps) :
           (stageSteps[i] \in ToolSteps /\ stageSteps[i] = stageSteps[j]) => i = j
    /\ (stageName # "" /\ ExitsSeen \ {0} # {}) =>
           /\ stageResult = "raised"
           /\ stageSteps[Len(stageSteps)] \in ToolSteps
           /\ stageExits[ToolCalls(stageSteps, Len(stageSteps))] # 0
           /\ \A k \in 1..(ToolCalls(stageSteps, Len(stageSteps)) - 1) : stageExits[k] = 0
           /\ stageOut \cap {"zip", "7z"} = {}
    /\ stageResult = "returned" => ExitsSeen \subseteq {0}

\* generate_png300_pdf whose first tool invocation failed: the fronts were
\* neither extracted nor rendered
C22_Witness ==
    /\ stageName = "generate_png300_pdf" /\ stageExits = <<1, 0>>
    /\ stageResult = "raised"
    /\ stageSteps[Len(stageSteps)] = "python-prepare-pdf-back-folder"

\* an image folder that is missing, empty, or holds only files that are no
\* card images
NoCardImage == \A i \in 1..Len(stagePool.files) : stagePool.files[i] = OtherFile

\* C23 as stated: a packing stage whose image folder holds no card image
\* logs an error and produces neither an output folder nor an archive.
C23_NoCardsFound ==
    (stageName \in ArchiveStages /\ NoCardImage) =>
        /\ InListing(stageSteps, "logging.error")
        /\ stageOut = {}

(***************************************************************************)
(* SpecRuns: successive runs for one (set, language) pair, with the        *)
(* from_scratch setting and conf['outputs'] of each run, and the image     *)
(* folders png300DB/<set>.<lang> and png800BleedMPC/<set>.<lang> that the  *)
(* render stages keep from one run to the next.                            *)
(*                                                                         *)
(* An image is represented by the canonical content of the card it was     *)
(* rendered from.  The project archive holds, per image class, the images  *)
(* the renderer drew from the current snapshot: those of the cards that    *)
(* are not marked skip, and possibly those of cards that are.  A render    *)
(* stage writes every image the archive holds for the set.                 *)
(***************************************************************************)

\* the sheets of the runs: both cards, and both with another Quantity of "a"
RunSheets ==
    { <<[id |-> "a", qty |-> 1], [id |-> "b", qty |-> 1]>>,
      <<[id |-> "a", qty |-> 2], [id |-> "b", qty |-> 1]>> }

\* the configurations of the runs: one plugin version, DB images alone or
\* with MakePlayingCards images
RunConfs == {conf \in Confs : conf.plugin = "v1"}

RunIds == {"a", "b"}

\* the output classes with an image folder, in the order of their stages
ImageClasses == <<"db", "makeplayingcards">>

NoImage == <<>>

\* the render stages a run with these outputs calls, in order
RenderStages(outputs) == SelectSeq(ImageClasses, LAMBDA c : c \in outputs)

\* _clear_modified_images(output_path, skip_ids) on the images of a folder
ClearModified(imagesOf, skip_ids) ==
    [id \in RunIds |-> IF id \in skip_ids THEN imagesOf[id] ELSE NoImage]

\* the folder after the stage has written the images the project archive
\* holds for the set, those of the cards in archived
Rendered(imagesOf, cards, archived) ==
    [id \in RunIds |->
        LET hits == {i \in 1..Len(cards) : CardId(cards[i]) = id}
        IN  IF hits # {} /\ id \in archived
            THEN Content(cards[CHOOSE i \in hits : \A j \in hits : j <= i])
            ELSE imagesOf[id]]

\* the cards whose images the archive may hold for each image class
Archives(cards, skip_ids) ==
    {arch \in [{"db", "makeplayingcards"} -> SUBSET RunIds] :
        \A c \in DOMAIN arch :
            /\ \A id \in arch[c] : \E i \in 1..Len(cards) : CardId(cards[i]) = id
            /\ \A i \in 1..Len(cards) :
                   CardId(cards[i]) \notin skip_ids => CardId(cards[i]) \in arch[c]}

InitRuns ==
    /\ runScratch = FALSE
    /\ runOutputs = {}
    /\ imgFolders = [c \in {"db", "makeplayingcards"} |-> [id \in RunIds |-> NoImage]]

\* generate_xml of a run started with or without from_scratch
RunGenerateXml ==
    /\ pc = "idle"
    /\ \E from_scratch \in BOOLEAN, sheet \in RunSheets, outcome \in MacroOutcomes :
        LET b == BackupPreviousXml(from_scratch, newFile, oldFile) IN
        /\ runScratch' = from_scratch
        /\ oldFile' = b.old
        /\ newFile' = IF outcome = "raised" THEN b.new ELSE File(SaveXML(sheet))
        /\ pc' = IF outcome = "returned" THEN "generated" ELSE "idle"
        /\ lastError' = IF outcome = "returned" THEN "" ELSE "generate_xml"
    /\ UNCHANGED <<artwork, hashes, skipInfo, runOutputs, imgFolders>>

\* update_xml of a run with the outputs of its configuration
RunUpdateXml ==
    /\ pc = "generated"
    /\ \E conf \in RunConfs :
        /\ runOutputs' = conf.outputs
        /\ newFile' = File(UpdateXmlDoc(conf.plugin, conf.outputs,
                                  Artworks(<<artwork>>, <<>>), newFile.doc))
    /\ pc' = "updated"
    /\ UNCHANGED <<oldFile, artwork, lastError, hashes, skipInfo, runScratch, imgFolders>>

\* the render stages of the run, generate_png300_db and then
\* generate_png800_bleedmpc for the outputs in use: the first k of them
\* return and the next one raises at the external tool, after
\* _clear_modified_images; the run ends.  A stage that returns has written
\* the images of the archive, those of skipped cards included; the stage
\* that raises has written those of the cards in part, the ones the tool
\* got to before it failed.
RenderImages ==
    /\ pc = "skipinfo"
    /\ \E k \in 0..Len(RenderStages(runOutputs)),
          arch \in Archives(NewCards, skipInfo.skip_ids) :
       \E part \in (IF k < Len(RenderStages(runOutputs)) THEN SUBSET RunIds ELSE {{}}) :
        \* what the archive holds for a class whose stage does not return is
        \* not read in full: one archive stands for all of them
        /\ \A c \in DOMAIN arch :
               (\A n \in 1..k : RenderStages(runOutputs)[n] # c) =>
                   arch[c] = {CardId(NewCards[i]) : i \in 1..Len(NewCards)}
        /\ imgFolders' =
               [c \in DOMAIN imgFolders |->
                   LET at == {n \in 1..Len(RenderStages(runOutputs)) :
                                 RenderStages(runOutputs)[n] = c}
                       kept == ClearModified(imgFolders[c], skipInfo.skip_ids)
                   IN  IF at = {} \/ at \cap (1..(k + 1)) = {} THEN imgFolders[c]
                       ELSE IF at \cap (1..k) = {}
                       THEN Rendered(kept, NewCards, arch[c] \cap part)
                       ELSE Rendered(kept, NewCards, arch[c])]
        /\ lastError' = IF k < Len(RenderStages(runOutputs)) THEN "render" ELSE ""
    /\ pc' = "idle"
    /\ hashes' = NoHashes
    /\ skipInfo' = NoSkipInfo
    /\ UNCHANGED <<newFile, oldFile, artwork, runScratch, runOutputs>>

NextRuns ==
    \/ RunGenerateXml /\ UNCHANGED <<canonVars, clearVars, pdfVars, packVars, deckVars, stageVars, rehashVars, artVars, encVars>>
    \/ RunUpdateXml /\ UNCHANGED <<canonVars, clearVars, pdfVars, packVars, deckVars, stageVars, rehashVars, artVars, encVars>>
    \/ CalculateHashes /\ UNCHANGED <<canonVars, clearVars, pdfVars, packVars, deckVars, stageVars, runsVars, rehashVars, artVars, encVars>>
    \/ GetSkipInfo /\ UNCHANGED <<canonVars, clearVars, pdfVars, packVars, deckVars, stageVars, runsVars, rehashVars, artVars, encVars>>
    \/ RenderImages /\ UNCHANGED <<canonVars, clearVars, pdfVars, packVars, deckVars, stageVars, rehashVars, artVars, encVars>>
    \/ AbortRun /\ UNCHANGED <<canonVars, clearVars, pdfVars, packVars, deckVars, stageVars, runsVars, rehashVars, artVars, encVars>>
    \/ KilledInWrite /\ UNCHANGED <<canonVars, clearVars, pdfVars, packVars, deckVars, stageVars, runsVars, rehashVars, artVars, encVars>>

\* no run has been made, the image folders are empty
RunsStart ==
    InitPipe /\ IdleCanon /\ IdleClear /\ IdlePdf /\ IdlePack /\ IdleDeck /\ IdleStage
    /\ InitRuns /\ IdleRehash /\ IdleArt /\ IdleEnc

SpecRuns == RunsStart /\ [][NextRuns]_vars

\* ---- properties of SpecRuns ----

\* C25 as stated: whenever a card is marked skip for a run, every image
\* folder of an output class the run uses holds an image of the card
\* rendered from its current content.
C25_SkipOnlyWhenReusable ==
    pc = "skipinfo" =>
        \A i \in 1..Len(NewCards) :
            CardId(NewCards[i]) \in skipInfo.skip_ids =>
                \A n \in 1..Len(RenderStages(runOutputs)) :
                    imgFolders[RenderStages(runOutputs)[n]][CardId(NewCards[i])]
                        = Content(NewCards[i])

\* C27: in a run started with from_scratch no prior snapshot exists once
\* _backup_previous_xml has run, and calculate_hashes then marks neither the
\* set nor a card and get_skip_info reports nothing to skip; in a run
\* started without from_scratch _backup_previous_xml moves an existing
\* current snapshot into the prior slot, and leaves the prior snapshot as it
\* was when there is no current one.  Either way no current snapshot is left
\* for the macro to write over.
C27_FromScratchForgetsPrior ==
    /\ [](runScratch /\ (pc # "idle" \/ lastError = "generate_xml")
              => oldFile = Absent)
    /\ [](runScratch /\ Hashed =>
              /\ ~HasAttr(newFile.doc.attrs, "skip")
              /\ \A i \in 1..Len(NewCards) : ~HasAttr(NewCards[i].attrs, "skip")
              /\ pc = "skipinfo" => skipInfo = NoSkipInfo)
    /\ [][ (pc = "idle" /\ ~runScratch') =>
               oldFile' = IF newFile.st # "absent" THEN newFile ELSE oldFile
         ]_vars

\* a from_scratch run that reached get_skip_info with both cards, after an
\* earlier run had rendered card "b" from the same content
C27_Witness ==
    /\ pc = "skipinfo" /\ runScratch
    /\ Len(NewCards) = 2
    /\ imgFolders["db"]["b"] = Content(NewCards[2])
    /\ skipInfo = NoSkipInfo

(***************************************************************************)
(* SpecRehash: calculate_hashes applied to the snapshot update_xml wrote,  *)
(* and then once more to the file it has just written.                     *)
(***************************************************************************)

\* the snapshots update_xml writes for the sheets and configurations
UpdatedDocs ==
    {UpdateXmlDoc(conf.plugin, conf.outputs,
                  Artworks(<<ArtworkFile(0)>>, <<>>), SaveXML(sheet)) :
        conf \in Confs, sheet \in Sheets}

\* the new snapshot is one of them; the prior snapshot is missing or is one
\* of them with the fingerprints of an earlier cold run
InitRehash ==
    /\ pc = "updated"
    /\ \E docs \in {UpdatedDocs} :
           /\ newFile \in {File(d) : d \in docs}
           /\ oldFile \in {Absent} \cup {File(HashedDoc(File(d), Absent)) : d \in docs}
    /\ artwork = ArtworkFile(0)
    /\ lastError = ""
    /\ hashes = NoHashes
    /\ skipInfo = NoSkipInfo
    /\ firstDoc = NoDoc

\* calculate_hashes called again on the file the first call wrote
Rehash ==
    /\ pc = "hashed"
    /\ firstDoc' = newFile.doc
    /\ IF HashesRaise(newFile, oldFile)
       THEN /\ pc' = "idle"
            /\ lastError' = "calculate_hashes"
            /\ UNCHANGED <<newFile, hashes>>
       ELSE /\ pc' = "rehashed"
            /\ newFile' = File(HashedDoc(newFile, oldFile))
            /\ hashes' = HashesReturned(newFile, oldFile)
            /\ UNCHANGED lastError
    /\ UNCHANGED <<oldFile, artwork, skipInfo>>

NextRehash ==
    \/ CalculateHashes /\ UNCHANGED <<canonVars, clearVars, pdfVars, packVars, deckVars, stageVars, runsVars, rehashVars, artVars, encVars>>
    \/ Rehash /\ UNCHANGED <<canonVars, clearVars, pdfVars, packVars, deckVars, stageVars, runsVars, artVars, encVars>>

\* an updated snapshot about to be fingerprinted
RehashStart ==
    InitRehash /\ IdleCanon /\ IdleClear /\ IdlePdf /\ IdlePack /\ IdleDeck /\ IdleStage
    /\ IdleRuns /\ IdleArt /\ IdleEnc

SpecRehash == RehashStart /\ [][NextRehash]_vars

\* ---- properties of SpecRehash ----

\* the stored fingerprints of a document: that of the set, those of the cards
Fingerprints(root) ==
    << AttrGet(root.attrs, "hash"),
       [i \in 1..Len(root.kids[1].kids) |-> AttrGet(root.kids[1].kids[i].attrs, "hash")] >>

\* C30 as stated: calculate_hashes applied to its own output stores the same
\* set and card fingerprints as the first call did.
C30_RehashKeepsFingerprints ==
    pc = "rehashed" => Fingerprints(newFile.doc) = Fingerprints(firstDoc)

(***************************************************************************)
(* SpecArt: _collect_artwork_images called for the artwork folder and the  *)
(* folder of processed artwork, while files are added to and removed from  *)
(* the folders between the calls.  ARTWORK_CACHE lives as long as the      *)
(* process.  Filenames are sequences of characters.                        *)
(***************************************************************************)
MaxListing == 2

\* s.split(ch)
RECURSIVE SplitAt(_, _)
SplitAt(s, ch) ==
    LET at == {i \in 1..Len(s) : s[i] = ch} IN
    IF at = {} THEN <<s>>
    ELSE LET i == CHOOSE d \in at : \A e \in at : d <= e
         IN  <<SubSeq(s, 1, i - 1)>> \o SplitAt(SubSeq(s, i + 1, Len(s)), ch)

\* '_'.join(filename.split('_')[:2])
CardIdSide(filename) ==
    LET parts == SplitAt(filename, "_")
    IN  IF Len(parts) = 1 THEN parts[1] ELSE parts[1] \o <<"_">> \o parts[2]

\* the filename passes both tests of the loop body
ArtIndexed(filename) ==
    /\ ~(Len(SplitAt(filename, ".")) < 2 \/ Len(SplitAt(filename, "_")) < 3)
    /\ LastPart(filename) \in {Jpg, Png}

\* the images dict after the first n filenames of the listing
RECURSIVE Scan(_, _, _)
Scan(path, files, n) ==
    IF n = 0 THEN EmptyMap
    ELSE LET before == Scan(path, files, n - 1)
         IN  IF ArtIndexed(files[n])
             THEN MapPut(before, CardIdSide(files[n]), <<path, files[n]>>)
             ELSE before

\* the filenames the scan logs 'Duplicate card ID detected' for
ScanWarned(path, files) ==
    {files[n] : n \in {m \in 1..Len(files) :
        /\ ArtIndexed(files[m])
        /\ CardIdSide(files[m]) \in DOMAIN Scan(path, files, m - 1)}}

\* a variant of the cache test that is never true
CacheHitNever(path, cache) == FALSE

\* artwork_path in ARTWORK_CACHE
CacheHit(path, cache) == path \in DOMAIN cache

\* ---- the folders and calls under study ----

ArtPaths == {"art", "processed"}

\* card a side A as jpg, the same key as png, a name of two segments, and a
\* name with another extension
ArtFiles ==
    { <<"a", "_", "A", "_", "x", ".", "j", "p", "g">>,
      <<"a", "_", "A", "_", "y", ".", "p", "n", "g">>,
      <<"a", "_", "B", ".", "j", "p", "g">>,
      <<"b", "_", "A", "_", "z", ".", "g", "i", "f">> }

\* the listings of at most n of the files, in any order
RECURSIVE ArtListings(_)
ArtListings(n) ==
    IF n = 0 THEN {<<>>}
    ELSE ArtListings(n - 1)
         \cup {Append(l, f) : l \in {k \in ArtListings(n - 1) : Len(k) = n - 1},
                             f \in ArtFiles}

NoRepeat(l) == \A i, j \in 1..Len(l) : l[i] = l[j] => i = j

InitArt ==
    /\ artDirs \in [ArtPaths -> {l \in ArtListings(MaxListing) : NoRepeat(l)}]
    /\ artCache = EmptyMap
    /\ artPath = ""
    /\ artReturned = EmptyMap
    /\ artWarned = {}
    /\ artHit = FALSE

\* _collect_artwork_images(artwork_path)
CollectArtworkImages ==
    \E path \in ArtPaths :
        /\ artPath' = path
        /\ IF CacheHit(path, artCache)
           THEN /\ artReturned' = artCache[path]
                /\ artWarned' = {}
                /\ artHit' = TRUE
                /\ UNCHANGED artCache
           ELSE LET found == Scan(path, artDirs[path], Len(artDirs[path])) IN
                /\ artCache' = MapPut(artCache, path, found)
                /\ artReturned' = found
                /\ artWarned' = ScanWarned(path, artDirs[path])
                /\ artHit' = FALSE
        /\ UNCHANGED artDirs

\* between two calls a file is added to a folder
AddArtFile ==
    \E path \in ArtPaths, f \in ArtFiles :
        /\ Len(artDirs[path]) < MaxListing
        /\ ~InListing(artDirs[path], f)
        /\ artDirs' = [artDirs EXCEPT ![path] = Append(@, f)]
        /\ UNCHANGED <<artCache, artPath, artReturned, artWarned, artHit>>

\* between two calls a file is removed from a folder
RemoveArtFile ==
    \E path \in ArtPaths, f \in ArtFiles :
        /\ InListing(artDirs[path], f)
        /\ artDirs' = [artDirs EXCEPT ![path] = SelectSeq(@, LAMBDA g : g # f)]
        /\ UNCHANGED <<artCache, artPath, artReturned, artWarned, artHit>>

NextArt ==
    \/ CollectArtworkImages /\ UNCHANGED <<pipeVars, canonVars, clearVars, pdfVars, packVars, deckVars, stageVars, runsVars, rehashVars, encVars>>
    \/ AddArtFile /\ UNCHANGED <<pipeVars, canonVars, clearVars, pdfVars, packVars, deckVars, stageVars, runsVars, rehashVars, encVars>>
    \/ RemoveArtFile /\ UNCHANGED <<pipeVars, canonVars, clearVars, pdfVars, packVars, deckVars, stageVars, runsVars, rehashVars, encVars>>

\* a fresh process: nothing is cached
ArtStart ==
    InitPipe /\ IdleCanon /\ IdleClear /\ IdlePdf /\ IdlePack /\ IdleDeck /\ IdleStage
    /\ IdleRuns /\ IdleRehash /\ InitArt /\ IdleEnc

SpecArt == ArtStart /\ [][NextArt]_vars

\* ---- properties of SpecArt ----

\* the positions of the underscores of a filename
Underscores(f) == {i \in 1..Len(f) : f[i] = "_"}

\* a name of at least 3 underscore-delimited segments with extension jpg or
\* png
ArtworkName(f) ==
    /\ Cardinality(Underscores(f)) >= 2
    /\ \E i \in 1..Len(f) : f[i] = "."
    /\ LastPart(f) \in {Jpg, Png}

\* the card id and side of an artwork name: the text before its second
\* underscore
KeyOf(f) ==
    SubSeq(f, 1, (CHOOSE i \in Underscores(f) :
                      Cardinality({j \in Underscores(f) : j < i}) = 1) - 1)

\* the mapping holds, for every key of an artwork name of the listing, the
\* last file of the listing with that key, and nothing else
LastWins(path, files, found) ==
    LET named == {i \in 1..Len(files) : ArtworkName(files[i])} IN
    /\ DOMAIN found = {KeyOf(files[i]) : i \in named}
    /\ \A k \in DOMAIN found :
           \E i \in named :
               /\ KeyOf(files[i]) = k
               /\ found[k] = <<path, files[i]>>
               /\ \A j \in named : KeyOf(files[j]) = k => j <= i

\* C28: an entry of the cache is never removed or replaced, whatever happens
\* to the folders; a call for a cached path returns the cached mapping; a
\* call for a path not yet cached returns and caches a mapping in which only
\* names of at least 3 underscore-delimited segments with extension jpg or
\* png appear, the last file of a key wins, and a warning is logged for
\* each file that replaces an earlier one.
C28_ArtworkIndexMemoized ==
    [][ /\ \A p \in DOMAIN artCache :
               p \in DOMAIN artCache' /\ artCache'[p] = artCache[p]
        /\ artDirs' = artDirs =>
               IF artPath' \in DOMAIN artCache
               THEN artReturned' = artCache[artPath'] /\ artHit'
               ELSE /\ artReturned' = artCache'[artPath'] /\ ~artHit'
                    /\ LastWins(artPath', artDirs[artPath'], artReturned')
                    /\ \A k \in DOMAIN artReturned' : ArtworkName(artReturned'[k][2])
                    /\ artWarned' =
                           {artDirs[artPath'][i] : i \in
                               {n \in 1..Len(artDirs[artPath']) :
                                   /\ ArtworkName(artDirs[artPath'][n])
                                   /\ \E m \in 1..(n - 1) :
                                          /\ ArtworkName(artDirs[artPath'][m])
                                          /\ KeyOf(artDirs[artPath'][m])
                                                 = KeyOf(artDirs[artPath'][n])}}
      ]_vars

\* a call for "art" answered from the cache with the png of card a, which
\* has since been removed from the folder, while the cached mapping of
\* "processed" holds the later of the two files of card a
C28_Witness ==
    /\ artPath = "art" /\ artHit
    /\ artReturned = artCache["art"]
    /\ DOMAIN artReturned = {<<"a", "_", "A">>}
    /\ artReturned[<<"a", "_", "A">>][2] = <<"a", "_", "A", "_", "y", ".", "p", "n", "g">>
    /\ ~InListing(artDirs["art"], <<"a", "_", "A", "_", "y", ".", "p", "n", "g">>)
    /\ "processed" \in DOMAIN artCache
    /\ artDirs["processed"] = << <<"a", "_", "A", "_", "y", ".", "p", "n", "g">>,
                                 <<"a", "_", "A", "_", "x", ".", "j", "p", "g">> >>
    /\ <<"a", "_", "A">> \in DOMAIN artCache["processed"]
    /\ artCache["processed"][<<"a", "_", "A">>][2]
           = <<"a", "_", "A", "_", "x", ".", "j", "p", "g">>

(***************************************************************************)
(* SpecEnc: update_xml on a snapshot of three cards, each with or without  *)
(* a Type and an Encounter Set.  No artwork is indexed.                    *)
(***************************************************************************)

\* the ids of the cards, in document order
EncIds == <<"c1", "c2", "c3">>

\* what the sheet says about a card; "" stands for a property that is not
\* written
EncRows == [type : {"Enemy", "Quest", ""}, eset : {"E", "F", ""}, qty : 1..MaxQty]

EncCard(id, row) ==
    Elem("card", << <<"id", id>> >>, NL,
         (IF row.type # "" THEN <<Property("Type", row.type)>> ELSE <<>>)
         \o (IF row.eset # "" THEN <<Property("Encounter Set", row.eset)>> ELSE <<>>)
         \o <<Property("Quantity", ToString(row.qty))>>,
         NL)

EncDoc(rows) ==
    Elem("set", << <<"id", "S">> >>, NL,
         << Elem("cards", <<>>, NL,
                 [i \in 1..Len(EncIds) |-> EncCard(EncIds[i], rows[i])], NL) >>,
         <<>>)

InitEnc ==
    /\ encIn \in {EncDoc(rows) : rows \in [1..Len(EncIds) -> EncRows]}
    /\ encOut = NoDoc

\* update_xml with an empty artwork folder
UpdateEncounterXml ==
    /\ encOut = NoDoc
    /\ \E conf \in Confs :
           encOut' = UpdateXmlDoc(conf.plugin, conf.outputs,
                                  Artworks(<<>>, <<>>), encIn)
    /\ UNCHANGED encIn

NextEnc ==
    UpdateEncounterXml /\ UNCHANGED <<pipeVars, canonVars, clearVars, pdfVars, packVars, deckVars, stageVars, runsVars, rehashVars, artVars>>

\* a snapshot about to be updated
EncStart ==
    InitPipe /\ IdleCanon /\ IdleClear /\ IdlePdf /\ IdlePack /\ IdleDeck /\ IdleStage
    /\ IdleRuns /\ IdleRehash /\ IdleArt /\ InitEnc

SpecEnc == EncStart /\ [][NextEnc]_vars

\* ---- properties of SpecEnc ----

EncInCards  == encIn.kids[1].kids
EncOutCards == encOut.kids[1].kids

\* the value of the named property of a card, None when it has none
PropValue(card, name) ==
    IF FindProperties(card, name) = <<>> THEN None
    ELSE AttrGet(FindProperties(card, name)[1].attrs, "value")

\* the number a property value spells
EncInt(value) == CHOOSE n \in 0..(Len(EncIds) * (MaxQty + 1)) : ToString(n) = value

\* card i belongs to encounter set e and is not a Quest card
NonQuestOf(e, i) ==
    /\ PropValue(EncInCards[i], "Encounter Set") = e
    /\ PropValue(EncInCards[i], "Type") # "Quest"

\* card i belongs to encounter set e and has a Type other than Quest
TypedNonQuestOf(e, i) ==
    /\ NonQuestOf(e, i)
    /\ PropValue(EncInCards[i], "Type") # None

\* the sum of the Quantity values of the cards of `members` among the first n
RECURSIVE QuantitySum(_, _)
QuantitySum(members, n) ==
    IF n = 0 THEN 0
    ELSE QuantitySum(members, n - 1)
         + (IF n \in members
            THEN EncInt(PropValue(EncInCards[n], "Quantity")) ELSE 0)

\* the numbering of the cards `members` of one encounter set
NumberedInOrder(members) ==
    LET total == QuantitySum(members, Len(EncInCards)) IN
    /\ \A i \in members :
           /\ PropValue(EncOutCards[i], "Encounter Set Number")
                  = ToString(1 + QuantitySum(members, i - 1))
           /\ PropValue(EncOutCards[i], "Encounter Set Total") = ToString(total)
    /\ \A n \in 1..total :
           Cardinality({i \in members :
               LET first == EncInt(PropValue(EncOutCards[i], "Encounter Set Number"))
               IN  /\ first <= n
                   /\ n <= first + EncInt(PropValue(EncInCards[i], "Quantity")) - 1}) = 1

\* C29 as stated: in every encounter set the cards that are not Quest cards
\* are numbered in document order by the running sum of their quantities.
C29_AsStated ==
    encOut # NoDoc =>
        \A e \in {"E", "F"} :
            NumberedInOrder({i \in 1..Len(EncInCards) : NonQuestOf(e, i)})

\* C29: in every encounter set the cards that have a Type other than Quest
\* are numbered in document order: Encounter Set Number is 1 plus the sum of
\* the quantities of the preceding such cards, Encounter Set Total is the
\* sum of the quantities of all of them, and the ranges
\* [Number, Number + Quantity - 1] are disjoint and cover 1..Total.  Every
\* other card gets neither property.
C29_EncounterNumbering ==
    encOut # NoDoc =>
        /\ \A e \in {"E", "F"} :
               NumberedInOrder({i \in 1..Len(EncInCards) : TypedNonQuestOf(e, i)})
        /\ \A i \in 1..Len(EncInCards) :
               (\A e \in {"E", "F"} : ~TypedNonQuestOf(e, i)) =>
                   /\ PropValue(EncOutCards[i], "Encounter Set Number") = None
                   /\ PropValue(EncOutCards[i], "Encounter Set Total") = None

\* two cards of set E around a Quest card of the same set
C29_Witness ==
    /\ encOut # NoDoc
    /\ TypedNonQuestOf("E", 1) /\ TypedNonQuestOf("E", 3)
    /\ PropValue(EncInCards[2], "Type") = "Quest"
    /\ PropValue(EncInCards[2], "Encounter Set") = "E"
    /\ PropValue(EncInCards[1], "Quantity") = "2"
    /\ PropValue(EncOutCards[3], "Encounter Set Number") = "3"
    /\ PropValue(EncOutCards[3], "Encounter Set Total") = "4"

====
